---------------------------- MODULE Spec2Model ----------------------------
(***************************************************************************)
(* A model of reddit_persona_generator.py: the keyword analyses of         *)
(* PersonaAnalyzer, generate_persona, and the report of                    *)
(* PersonaReportGenerator.generate_text_report.                            *)
(*                                                                         *)
(* Text is modelled as Python holds it: a str is a sequence of characters  *)
(* (a tuple of one-character strings), so that lower(), join, count and    *)
(* the substring test are computed, not assumed.  A post or a comment is a *)
(* function from the keys it has to their values: a key that is missing    *)
(* from the dict is missing from the function's domain.                    *)
(***************************************************************************)
EXTENDS Integers, Sequences, FiniteSets, TLC

VARIABLES
    posts,      \* the posts handed to the analyzer, a sequence of dicts
    comments,   \* the comments handed to the analyzer, a sequence of dicts
    personas,   \* what the calls of generate_persona returned, the latest last
    reports,    \* what the calls of generate_text_report came to, the latest last
    fn,         \* the function last applied on its own, "none" before
    arg,        \* the argument of a function applied on its own
    out,        \* what the function applied on its own returned
    clock,      \* the instant datetime.now() returned last
    run         \* a run of main: where it stands, its argument, the fetches
                \* that failed, its exit status

vars == <<posts, comments, personas, reports, fn, arg, out, clock, run>>

(***************************************************************************)
(* Bounds of the model.                                                    *)
(***************************************************************************)
MaxPosts == 2
MaxComments == 2
MaxRepeat == 29
MaxTierPosts == 22
MaxTierComments == 52

(***************************************************************************)
(* Python str operations.                                                  *)
(***************************************************************************)
Min(S) == CHOOSE x \in S : \A y \in S : x <= y

\* str.lower() of one character
LowerChar(c) ==
    CASE c = "A" -> "a" [] c = "B" -> "b" [] c = "C" -> "c" [] c = "D" -> "d"
      [] c = "E" -> "e" [] c = "F" -> "f" [] c = "G" -> "g" [] c = "H" -> "h"
      [] c = "I" -> "i" [] c = "J" -> "j" [] c = "K" -> "k" [] c = "L" -> "l"
      [] c = "M" -> "m" [] c = "N" -> "n" [] c = "O" -> "o" [] c = "P" -> "p"
      [] c = "Q" -> "q" [] c = "R" -> "r" [] c = "S" -> "s" [] c = "T" -> "t"
      [] c = "U" -> "u" [] c = "V" -> "v" [] c = "W" -> "w" [] c = "X" -> "x"
      [] c = "Y" -> "y" [] c = "Z" -> "z" [] OTHER -> c

\* str.lower()
Lower(s) == [i \in 1..Len(s) |-> LowerChar(s[i])]

\* ' '.join(parts[lo..hi]), halving the range
RECURSIVE JoinRange(_, _, _)
JoinRange(parts, lo, hi) ==
    IF lo > hi THEN << >>
    ELSE IF lo = hi THEN parts[lo]
    ELSE LET mid == (lo + hi) \div 2
         IN JoinRange(parts, lo, mid) \o <<" ">> \o JoinRange(parts, mid + 1, hi)

\* ' '.join(parts)
Join(parts) == JoinRange(parts, 1, Len(parts))

\* text[i:i+len(kw)] == kw, i counted from 1
MatchAt(text, kw, i) ==
    \A j \in 1..Len(kw) : text[i + j - 1] = kw[j]

\* the places where kw occurs in text
Occurrences(text, kw) ==
    {i \in 1..(Len(text) - Len(kw) + 1) : MatchAt(text, kw, i)}

\* kw in text
Contains(text, kw) == Occurrences(text, kw) # {}

\* str.count scans left to right and, after an occurrence, resumes behind it:
\* the occurrences it counts do not overlap
RECURSIVE CountFrom(_, _, _)
CountFrom(occ, len, i) ==
    LET later == {j \in occ : j >= i}
    IN IF later = {} THEN 0 ELSE 1 + CountFrom(occ, len, Min(later) + len)

\* text.count(kw)
Count(text, kw) == CountFrom(Occurrences(text, kw), Len(kw), 1)

\* sum(text.count(keyword) for keyword in keywords)
RECURSIVE SumCounts(_, _)
SumCounts(text, keywords) ==
    IF keywords = << >> THEN 0
    ELSE Count(text, Head(keywords)) + SumCounts(text, Tail(keywords))

\* a variant of AnyIn: the loop left after its first keyword, matched or not
AnyInFirst(text, keywords) ==
    keywords # << >> /\ Contains(text, keywords[1])

\* any(keyword in text for keyword in keywords)
AnyIn(text, keywords) ==
    \E k \in 1..Len(keywords) : Contains(text, keywords[k])

\* dict.get(key, '')
Get(d, key) == IF key \in DOMAIN d THEN d[key] ELSE << >>

(***************************************************************************)
(* Python float: an IEEE 754 double, a 53 bit significand (most            *)
(* significant bit first, the first bit 1) and an exponent: the value is   *)
(* man * 2^(exp - 52).  Division and multiplication round to nearest, ties *)
(* to even; int() cuts the fraction off.                                   *)
(***************************************************************************)
MantissaBits == 53

FloatZero == [exp |-> 0, man |-> << >>]

RECURSIVE Pow2(_)
Pow2(n) == IF n = 0 THEN 1 ELSE 2 * Pow2(n - 1)

\* 2^e mod m, by squaring
RECURSIVE PowMod2(_, _)
PowMod2(e, m) ==
    IF e = 0 THEN 1 % m
    ELSE LET h == PowMod2(e \div 2, m)
         IN (h * h * (IF e % 2 = 1 THEN 2 ELSE 1)) % m

\* the least k with a * 2^k >= b, for 0 < a <= b
RECURSIVE NormShift(_, _)
NormShift(a, b) == IF a >= b THEN 0 ELSE 1 + NormShift(2 * a, b)

Zeros(n) == [i \in 1..n |-> 0]

AllOnes(bits) == \A i \in 1..Len(bits) : bits[i] = 1

\* bits + 1, for bits not all ones
BitsInc(bits) ==
    LET z == CHOOSE i \in 1..Len(bits) :
                 bits[i] = 0 /\ \A j \in (i + 1)..Len(bits) : bits[j] = 1
    IN [i \in 1..Len(bits) |-> IF i < z THEN bits[i] ELSE IF i = z THEN 1 ELSE 0]

\* round to nearest, ties to even: cmp is -1, 0 or 1 as the part cut off is
\* below, at or above half of the last place kept
RoundEven(e, bits, cmp) ==
    LET up == cmp = 1 \/ (cmp = 0 /\ bits[Len(bits)] = 1)
    IN IF ~up THEN [exp |-> e, man |-> bits]
       ELSE IF AllOnes(bits)
            THEN [exp |-> e + 1, man |-> <<1>> \o Zeros(Len(bits) - 1)]
            ELSE [exp |-> e, man |-> BitsInc(bits)]

\* a / b for ints 0 <= a <= b, b > 0 (Python's true division). With
\* r0 = a * 2^k in [b, 2b), bit i of the quotient is floor(r0 * 2^(i-1) / b) mod 2
FloatDiv(a, b) ==
    IF a = 0 THEN FloatZero
    ELSE LET k == NormShift(a, b)
             r0 == a * Pow2(k)
             rem(i) == ((r0 % b) * PowMod2(i - 1, b)) % b  \* r0 * 2^(i-1) mod b
             bits == [i \in 1..MantissaBits |->
                         IF i = 1 THEN 1 ELSE (2 * rem(i - 1)) \div b]
             last == 2 * rem(MantissaBits)
             cmp == IF last > b THEN 1 ELSE IF last = b THEN 0 ELSE -1
         IN RoundEven(-k, bits, cmp)

\* x + y for two bit sequences of one length, the carry computed by lookahead
BitsAdd(x, y) ==
    LET n == Len(x)
        carry(i) == \E j \in (i + 1)..n :
                        /\ x[j] + y[j] = 2
                        /\ \A m \in (i + 1)..(j - 1) : x[m] + y[m] >= 1
    IN [i \in 1..n |-> (x[i] + y[i] + (IF carry(i) THEN 1 ELSE 0)) % 2]

StripZeros(bits) ==
    IF \A i \in 1..Len(bits) : bits[i] = 0 THEN << >>
    ELSE SubSeq(bits, Min({i \in 1..Len(bits) : bits[i] = 1}), Len(bits))

\* bits * 100 = bits * 64 + bits * 32 + bits * 4, exact
Times100(bits) ==
    LET w == Len(bits) + 7
        sh(k) == Zeros(w - Len(bits) - k) \o bits \o Zeros(k)
    IN StripZeros(BitsAdd(BitsAdd(sh(6), sh(5)), sh(2)))

\* x * 100
FloatMul100(x) ==
    IF x = FloatZero THEN FloatZero
    ELSE LET p == Times100(x.man)
             L == Len(p)
             cut == SubSeq(p, MantissaBits + 1, L)
             cmp == IF cut = << >> THEN -1
                    ELSE IF cut[1] = 0 THEN -1
                    ELSE IF cut = <<1>> \o Zeros(Len(cut) - 1) THEN 0 ELSE 1
         IN RoundEven(x.exp + L - MantissaBits, SubSeq(p, 1, MantissaBits), cmp)

RECURSIVE BitsToNat(_)
BitsToNat(bits) ==
    IF bits = << >> THEN 0
    ELSE 2 * BitsToNat(SubSeq(bits, 1, Len(bits) - 1)) + bits[Len(bits)]

\* int(x) for x >= 0
FloatToInt(x) ==
    IF x = FloatZero \/ x.exp < 0 THEN 0
    ELSE BitsToNat(SubSeq(x.man, 1, x.exp + 1))

(***************************************************************************)
(* The text the analyses read.                                             *)
(***************************************************************************)
\* analyze_demographics: title and selftext of every post, then the body of
\* every comment, joined by ' ' and lower-cased
DemographicsText(ps, cs) ==
    LET all_text == [i \in 1..(2 * Len(ps) + Len(cs)) |->
            IF i <= 2 * Len(ps)
            THEN IF i % 2 = 1 THEN Get(ps[(i + 1) \div 2], "title")
                 ELSE Get(ps[i \div 2], "selftext")
            ELSE Get(cs[i - 2 * Len(ps)], "body")]
    IN Lower(Join(all_text))

\* analyze_personality_traits: f"{title} {selftext}".lower() of every post,
\* then body.lower() of every comment, joined by ' '
TraitsText(ps, cs) ==
    LET all_content == [i \in 1..(Len(ps) + Len(cs)) |->
            IF i <= Len(ps)
            THEN Lower(Get(ps[i], "title") \o <<" ">> \o Get(ps[i], "selftext"))
            ELSE Lower(Get(cs[i - Len(ps)], "body"))]
    IN Join(all_content)

\* analyze_motivations, analyze_frustrations, analyze_goals_and_needs:
\* f"{title} {selftext}" of every post, then the body of every comment,
\* joined by ' ' and lower-cased
ContentText(ps, cs) ==
    LET all_content == [i \in 1..(Len(ps) + Len(cs)) |->
            IF i <= Len(ps)
            THEN Get(ps[i], "title") \o <<" ">> \o Get(ps[i], "selftext")
            ELSE Get(cs[i - Len(ps)], "body")]
    IN Lower(Join(all_content))

(***************************************************************************)
(* analyze_demographics.  A dict literal keeps the order it is written in: *)
(* each table is the sequence of its (keyword, value) items.               *)
(***************************************************************************)
age_indicators ==
    << <<<<"c", "o", "l", "l", "e", "g", "e">>, <<"2", "0", "-", "2", "2">>>>, <<<<"u", "n", "i", "v", "e", "r", "s", "i", "t", "y">>, <<"1", "8", "-", "2", "5">>>>,
       <<<<"s", "t", "u", "d", "e", "n", "t">>, <<"1", "8", "-", "2", "5">>>>, <<<<"g", "r", "a", "d", "u", "a", "t", "e", "d">>, <<"2", "2", "-", "3", "0">>>>,
       <<<<"j", "o", "b">>, <<"2", "5", "-", "3", "5">>>>, <<<<"c", "a", "r", "e", "e", "r">>, <<"2", "5", "-", "4", "0">>>>,
       <<<<"r", "e", "t", "i", "r", "e", "m", "e", "n", "t">>, <<"6", "0", "+">>>>, <<<<"k", "i", "d", "s">>, <<"2", "8", "-", "4", "5">>>>,
       <<<<"c", "h", "i", "l", "d", "r", "e", "n">>, <<"2", "8", "-", "4", "5">>>>, <<<<"m", "o", "r", "t", "g", "a", "g", "e">>, <<"3", "0", "-", "5", "0">>>>,
       <<<<"m", "a", "r", "r", "i", "a", "g", "e">>, <<"2", "5", "-", "4", "0">>>> >>

location_indicators ==
    << <<<<"u", "s", "a">>, <<"U", "n", "i", "t", "e", "d", " ", "S", "t", "a", "t", "e", "s">>>>, <<<<"a", "m", "e", "r", "i", "c", "a">>, <<"U", "n", "i", "t", "e", "d", " ", "S", "t", "a", "t", "e", "s">>>>,
       <<<<"u", "s">>, <<"U", "n", "i", "t", "e", "d", " ", "S", "t", "a", "t", "e", "s">>>>, <<<<"c", "a", "n", "a", "d", "a">>, <<"C", "a", "n", "a", "d", "a">>>>,
       <<<<"u", "k">>, <<"U", "n", "i", "t", "e", "d", " ", "K", "i", "n", "g", "d", "o", "m">>>>, <<<<"b", "r", "i", "t", "a", "i", "n">>, <<"U", "n", "i", "t", "e", "d", " ", "K", "i", "n", "g", "d", "o", "m">>>>,
       <<<<"a", "u", "s", "t", "r", "a", "l", "i", "a">>, <<"A", "u", "s", "t", "r", "a", "l", "i", "a">>>>, <<<<"g", "e", "r", "m", "a", "n", "y">>, <<"G", "e", "r", "m", "a", "n", "y">>>>,
       <<<<"f", "r", "a", "n", "c", "e">>, <<"F", "r", "a", "n", "c", "e">>>>, <<<<"e", "u", "r", "o", "p", "e">>, <<"E", "u", "r", "o", "p", "e">>>> >>

occupation_keywords ==
    << <<<<"s", "o", "f", "t", "w", "a", "r", "e">>, <<"S", "o", "f", "t", "w", "a", "r", "e", " ", "D", "e", "v", "e", "l", "o", "p", "e", "r">>>>,
       <<<<"p", "r", "o", "g", "r", "a", "m", "m", "i", "n", "g">>, <<"S", "o", "f", "t", "w", "a", "r", "e", " ", "D", "e", "v", "e", "l", "o", "p", "e", "r">>>>,
       <<<<"c", "o", "d", "i", "n", "g">>, <<"S", "o", "f", "t", "w", "a", "r", "e", " ", "D", "e", "v", "e", "l", "o", "p", "e", "r">>>>,
       <<<<"d", "e", "v", "e", "l", "o", "p", "e", "r">>, <<"S", "o", "f", "t", "w", "a", "r", "e", " ", "D", "e", "v", "e", "l", "o", "p", "e", "r">>>>,
       <<<<"e", "n", "g", "i", "n", "e", "e", "r">>, <<"E", "n", "g", "i", "n", "e", "e", "r">>>>, <<<<"t", "e", "a", "c", "h", "e", "r">>, <<"T", "e", "a", "c", "h", "e", "r">>>>,
       <<<<"s", "t", "u", "d", "e", "n", "t">>, <<"S", "t", "u", "d", "e", "n", "t">>>>,
       <<<<"d", "o", "c", "t", "o", "r">>, <<"H", "e", "a", "l", "t", "h", "c", "a", "r", "e", " ", "P", "r", "o", "f", "e", "s", "s", "i", "o", "n", "a", "l">>>>,
       <<<<"n", "u", "r", "s", "e">>, <<"H", "e", "a", "l", "t", "h", "c", "a", "r", "e", " ", "P", "r", "o", "f", "e", "s", "s", "i", "o", "n", "a", "l">>>>,
       <<<<"m", "a", "n", "a", "g", "e", "r">>, <<"M", "a", "n", "a", "g", "e", "r">>>>, <<<<"d", "e", "s", "i", "g", "n", "e", "r">>, <<"D", "e", "s", "i", "g", "n", "e", "r">>>>,
       <<<<"m", "a", "r", "k", "e", "t", "i", "n", "g">>, <<"M", "a", "r", "k", "e", "t", "i", "n", "g", " ", "P", "r", "o", "f", "e", "s", "s", "i", "o", "n", "a", "l">>>>,
       <<<<"s", "a", "l", "e", "s">>, <<"S", "a", "l", "e", "s", " ", "P", "r", "o", "f", "e", "s", "s", "i", "o", "n", "a", "l">>>>,
       <<<<"f", "i", "n", "a", "n", "c", "e">>, <<"F", "i", "n", "a", "n", "c", "e", " ", "P", "r", "o", "f", "e", "s", "s", "i", "o", "n", "a", "l">>>>,
       <<<<"l", "a", "w", "y", "e", "r">>, <<"L", "e", "g", "a", "l", " ", "P", "r", "o", "f", "e", "s", "s", "i", "o", "n", "a", "l">>>> >>

married_words == <<<<"w", "i", "f", "e">>, <<"h", "u", "s", "b", "a", "n", "d">>, <<"m", "a", "r", "r", "i", "e", "d">>, <<"s", "p", "o", "u", "s", "e">>>>
relationship_words == <<<<"g", "i", "r", "l", "f", "r", "i", "e", "n", "d">>, <<"b", "o", "y", "f", "r", "i", "e", "n", "d">>, <<"d", "a", "t", "i", "n", "g">>>>
single_words == <<<<"s", "i", "n", "g", "l", "e">>, <<"d", "a", "t", "i", "n", "g", " ", "a", "p", "p">>>>

\* a variant of FirstMatch: the loop without its break, the last match stays
FirstMatchNoBreak(table, text) ==
    LET hits == {k \in 1..Len(table) : Contains(text, table[k][1])}
    IN IF hits = {} THEN <<"U", "n", "k", "n", "o", "w", "n">>
       ELSE table[CHOOSE k \in hits : \A j \in hits : j <= k][2]

\* for keyword, value in table.items(): if keyword in text: take value; break
FirstMatch(table, text) ==
    LET hits == {k \in 1..Len(table) : Contains(text, table[k][1])}
    IN IF hits = {} THEN <<"U", "n", "k", "n", "o", "w", "n">> ELSE table[Min(hits)][2]

relationship_status(text) ==
    IF AnyIn(text, married_words) THEN <<"M", "a", "r", "r", "i", "e", "d">>
    ELSE IF AnyIn(text, relationship_words) THEN <<"I", "n", " ", "R", "e", "l", "a", "t", "i", "o", "n", "s", "h", "i", "p">>
    ELSE IF AnyIn(text, single_words) THEN <<"S", "i", "n", "g", "l", "e">>
    ELSE <<"U", "n", "k", "n", "o", "w", "n">>

analyze_demographics(ps, cs) ==
    LET combined_text == DemographicsText(ps, cs)
    IN [age |-> FirstMatch(age_indicators, combined_text),
        occupation |-> FirstMatch(occupation_keywords, combined_text),
        status |-> relationship_status(combined_text),
        location |-> FirstMatch(location_indicators, combined_text)]

(***************************************************************************)
(* analyze_personality_traits.                                             *)
(***************************************************************************)
extrovert_keywords ==
    <<<<"p", "a", "r", "t", "y">>, <<"s", "o", "c", "i", "a", "l">>, <<"f", "r", "i", "e", "n", "d", "s">>, <<"m", "e", "e", "t", "i", "n", "g", " ", "p", "e", "o", "p", "l", "e">>, <<"n", "e", "t", "w", "o", "r", "k", "i", "n", "g">>>>
introvert_keywords == <<<<"a", "l", "o", "n", "e">>, <<"q", "u", "i", "e", "t">>, <<"h", "o", "m", "e">>, <<"r", "e", "a", "d", "i", "n", "g">>, <<"s", "o", "l", "i", "t", "u", "d", "e">>>>
intuition_keywords ==
    <<<<"f", "u", "t", "u", "r", "e">>, <<"p", "o", "s", "s", "i", "b", "i", "l", "i", "t", "y">>, <<"t", "h", "e", "o", "r", "y">>, <<"c", "o", "n", "c", "e", "p", "t">>, <<"i", "d", "e", "a">>>>
sensing_keywords ==
    <<<<"p", "r", "a", "c", "t", "i", "c", "a", "l">>, <<"f", "a", "c", "t", "s">>, <<"d", "e", "t", "a", "i", "l", "s">>, <<"e", "x", "p", "e", "r", "i", "e", "n", "c", "e">>, <<"r", "e", "a", "l", "i", "t", "y">>>>
feeling_keywords == <<<<"f", "e", "e", "l">>, <<"e", "m", "o", "t", "i", "o", "n">>, <<"h", "e", "a", "r", "t">>, <<"c", "a", "r", "e">>, <<"e", "m", "p", "a", "t", "h", "y">>>>
thinking_keywords ==
    <<<<"l", "o", "g", "i", "c">>, <<"r", "a", "t", "i", "o", "n", "a", "l">>, <<"a", "n", "a", "l", "y", "z", "e">>, <<"o", "b", "j", "e", "c", "t", "i", "v", "e">>, <<"r", "e", "a", "s", "o", "n">>>>
perceiving_keywords ==
    <<<<"f", "l", "e", "x", "i", "b", "l", "e">>, <<"s", "p", "o", "n", "t", "a", "n", "e", "o", "u", "s">>, <<"a", "d", "a", "p", "t">>, <<"o", "p", "e", "n">>, <<"e", "x", "p", "l", "o", "r", "e">>>>
judging_keywords ==
    <<<<"p", "l", "a", "n">>, <<"o", "r", "g", "a", "n", "i", "z", "e">>, <<"s", "c", "h", "e", "d", "u", "l", "e">>, <<"s", "t", "r", "u", "c", "t", "u", "r", "e">>, <<"d", "e", "c", "i", "d", "e">>>>

helpful_keywords == <<<<"h", "e", "l", "p">>, <<"a", "d", "v", "i", "c", "e">>, <<"s", "u", "g", "g", "e", "s", "t">>, <<"r", "e", "c", "o", "m", "m", "e", "n", "d">>, <<"t", "r", "y", " ", "t", "h", "i", "s">>>>
enthusiasm_keywords == <<<<"a", "w", "e", "s", "o", "m", "e">>, <<"a", "m", "a", "z", "i", "n", "g">>, <<"l", "o", "v", "e">>, <<"e", "x", "c", "i", "t", "e", "d">>, <<"!">>>>
analytical_keywords ==
    <<<<"a", "n", "a", "l", "y", "s", "i", "s">>, <<"d", "a", "t", "a">>, <<"r", "e", "s", "e", "a", "r", "c", "h">>, <<"s", "t", "u", "d", "y">>, <<"s", "t", "a", "t", "i", "s", "t", "i", "c", "s">>>>
creative_keywords ==
    <<<<"c", "r", "e", "a", "t", "i", "v", "e">>, <<"a", "r", "t">>, <<"d", "e", "s", "i", "g", "n">>, <<"m", "u", "s", "i", "c">>, <<"w", "r", "i", "t", "e">>, <<"d", "r", "a", "w">>>>

\* a variant of AxisScore: no neutral score for a text without keywords
AxisScoreNoNeutral(score, other) ==
    LET total == score + other
    IN IF total = 0 THEN 0
       ELSE FloatToInt(FloatMul100(FloatDiv(score, total)))

\* total = score + other; 50 if total == 0; else int((score / total) * 100)
AxisScore(score, other) ==
    LET total == score + other
    IN IF total = 0 THEN 50
       ELSE FloatToInt(FloatMul100(FloatDiv(score, total)))

analyze_introversion_extroversion(text) ==
    AxisScore(SumCounts(text, extrovert_keywords),
              SumCounts(text, introvert_keywords))

analyze_intuition_sensing(text) ==
    AxisScore(SumCounts(text, sensing_keywords),
              SumCounts(text, intuition_keywords))

analyze_feeling_thinking(text) ==
    AxisScore(SumCounts(text, thinking_keywords),
              SumCounts(text, feeling_keywords))

analyze_perceiving_judging(text) ==
    AxisScore(SumCounts(text, judging_keywords),
              SumCounts(text, perceiving_keywords))

\* the labels appended, in the order of the four tests
Characteristics(text) ==
    (IF SumCounts(text, helpful_keywords) > 5 THEN <<<<"H", "e", "l", "p", "f", "u", "l">>>> ELSE << >>)
    \o (IF SumCounts(text, enthusiasm_keywords) > 10
        THEN <<<<"E", "n", "t", "h", "u", "s", "i", "a", "s", "t", "i", "c">>>> ELSE << >>)
    \o (IF SumCounts(text, analytical_keywords) > 3
        THEN <<<<"A", "n", "a", "l", "y", "t", "i", "c", "a", "l">>>> ELSE << >>)
    \o (IF SumCounts(text, creative_keywords) > 3
        THEN <<<<"C", "r", "e", "a", "t", "i", "v", "e">>>> ELSE << >>)

analyze_personality_traits(ps, cs) ==
    LET combined_text == TraitsText(ps, cs)
    IN [introvert_extrovert |-> analyze_introversion_extroversion(combined_text),
        intuition_sensing |-> analyze_intuition_sensing(combined_text),
        feeling_thinking |-> analyze_feeling_thinking(combined_text),
        perceiving_judging |-> analyze_perceiving_judging(combined_text),
        characteristics |-> Characteristics(combined_text)]

(***************************************************************************)
(* analyze_motivations.  The result is a dict: the sequence of its         *)
(* (category, score) items in the order the categories are inserted.       *)
(***************************************************************************)
motivation_keywords ==
    << <<<<"c", "o", "n", "v", "e", "n", "i", "e", "n", "c", "e">>, <<<<"e", "a", "s", "y">>, <<"q", "u", "i", "c", "k">>, <<"f", "a", "s", "t">>, <<"c", "o", "n", "v", "e", "n", "i", "e", "n", "t">>, <<"s", "i", "m", "p", "l", "e">>>> >>,
       <<<<"w", "e", "l", "l", "n", "e", "s", "s">>, <<<<"h", "e", "a", "l", "t", "h">>, <<"f", "i", "t", "n", "e", "s", "s">>, <<"e", "x", "e", "r", "c", "i", "s", "e">>, <<"d", "i", "e", "t">>, <<"w", "e", "l", "l", "n", "e", "s", "s">>>> >>,
       <<<<"s", "p", "e", "e", "d">>, <<<<"f", "a", "s", "t">>, <<"q", "u", "i", "c", "k">>, <<"r", "a", "p", "i", "d">>, <<"i", "m", "m", "e", "d", "i", "a", "t", "e">>, <<"i", "n", "s", "t", "a", "n", "t">>>> >>,
       <<<<"p", "r", "e", "f", "e", "r", "e", "n", "c", "e", "s">>, <<<<"p", "r", "e", "f", "e", "r">>, <<"l", "i", "k", "e">>, <<"f", "a", "v", "o", "r", "i", "t", "e">>, <<"c", "h", "o", "i", "c", "e">>, <<"o", "p", "t", "i", "o", "n">>>> >>,
       <<<<"c", "o", "m", "f", "o", "r", "t">>, <<<<"c", "o", "m", "f", "o", "r", "t">>, <<"c", "o", "z", "y">>, <<"r", "e", "l", "a", "x", "i", "n", "g">>, <<"p", "e", "a", "c", "e", "f", "u", "l">>, <<"c", "a", "l", "m">>>> >>,
       <<<<"d", "i", "e", "t", "a", "r", "y", "_", "n", "e", "e", "d", "s">>, <<<<"d", "i", "e", "t">>, <<"n", "u", "t", "r", "i", "t", "i", "o", "n">>, <<"h", "e", "a", "l", "t", "h", "y">>, <<"o", "r", "g", "a", "n", "i", "c">>, <<"v", "e", "g", "a", "n">>>> >> >>

\* a variant of MotivationScore: the score left unclamped
MotivationScoreUnclamped(score) == score * 10

\* min(score * 10, 100)
MotivationScore(score) == IF score * 10 < 100 THEN score * 10 ELSE 100

\* a variant of analyze_motivations: a keyword counts for the first category
\* that lists it only
analyze_motivations_exclusive(ps, cs) ==
    LET combined_text == ContentText(ps, cs)
        listed(k) == {motivation_keywords[k][2][j] :
                         j \in 1..Len(motivation_keywords[k][2])}
        own(k) == SelectSeq(motivation_keywords[k][2],
                            LAMBDA kw : \A m \in 1..(k - 1) : kw \notin listed(m))
    IN [k \in 1..Len(motivation_keywords) |->
           <<motivation_keywords[k][1],
             MotivationScore(SumCounts(combined_text, own(k)))>>]

analyze_motivations(ps, cs) ==
    LET combined_text == ContentText(ps, cs)
    IN [k \in 1..Len(motivation_keywords) |->
           <<motivation_keywords[k][1],
             MotivationScore(SumCounts(combined_text, motivation_keywords[k][2]))>>]

(***************************************************************************)
(* analyze_behavior_and_habits.                                            *)
(***************************************************************************)
\* the k-th least element of a set of numbers
Nth(S, k) == CHOOSE x \in S : Cardinality({y \in S : y <= x}) = k

\* str(n) for n >= 0
RECURSIVE Str(_)
Str(n) ==
    LET digit == <<"0", "1", "2", "3", "4", "5", "6", "7", "8", "9">>
    IN IF n < 10 THEN <<digit[n + 1]>>
       ELSE Str(n \div 10) \o <<digit[(n % 10) + 1]>>

\* subreddit_counts.items(): a dict lists its keys in the order they were
\* first inserted; the posts are counted before the comments
subreddit_counts(ps, cs) ==
    LET seen == [i \in 1..(Len(ps) + Len(cs)) |->
                    IF i <= Len(ps) THEN Get(ps[i], "subreddit")
                    ELSE Get(cs[i - Len(ps)], "subreddit")]
        first == {i \in 1..Len(seen) :
                     /\ seen[i] # << >>
                     /\ \A j \in 1..(i - 1) : seen[j] # seen[i]}
    IN [k \in 1..Cardinality(first) |->
           LET subreddit == seen[Nth(first, k)]
           IN <<subreddit,
                Cardinality({i \in 1..Len(seen) : seen[i] = subreddit})>>]

\* a variant of SortedByCount: sorted ascending and then reversed, which
\* turns the order of the items of equal count around
SortedByCountReversed(items) ==
    LET before(m, k) ==
            \/ items[m][2] > items[k][2]
            \/ (items[m][2] = items[k][2] /\ m > k)
        place(k) == 1 + Cardinality({m \in 1..Len(items) : before(m, k)})
    IN [p \in 1..Len(items) |->
           items[CHOOSE k \in 1..Len(items) : place(k) = p]]

\* sorted(items, key=lambda x: x[1], reverse=True): a stable sort, items of
\* equal count keep their order
SortedByCount(items) ==
    LET before(m, k) ==
            \/ items[m][2] > items[k][2]
            \/ (items[m][2] = items[k][2] /\ m < k)
        place(k) == 1 + Cardinality({m \in 1..Len(items) : before(m, k)})
    IN [p \in 1..Len(items) |->
           items[CHOOSE k \in 1..Len(items) : place(k) = p]]

\* s[:n]
Prefix(s, n) == SubSeq(s, 1, IF Len(s) < n THEN Len(s) ELSE n)

top_subreddits(ps, cs) == Prefix(SortedByCount(subreddit_counts(ps, cs)), 3)

\* a variant of analyze_behavior_and_habits: the second test of each pair an
\* if of its own, not an elif
analyze_behavior_and_habits_if(ps, cs) ==
    LET top == top_subreddits(ps, cs)
    IN [k \in 1..Len(top) |->
           <<"A", "c", "t", "i", "v", "e", " ", "i", "n", " ", "r", "/">> \o top[k][1] \o <<" ", "c", "o", "m", "m", "u", "n", "i", "t", "y", " ", "w", "i", "t", "h", " ">>
               \o Str(top[k][2]) \o <<" ", "p", "o", "s", "t", "s", "/", "c", "o", "m", "m", "e", "n", "t", "s">>]
       \o (IF Len(ps) > 20
           THEN <<<<"F", "r", "e", "q", "u", "e", "n", "t", " ", "p", "o", "s", "t", "e", "r", " ", "-", " ", "s", "h", "a", "r", "e", "s", " ", "c", "o", "n", "t", "e", "n", "t", " ", "r", "e", "g", "u", "l", "a", "r", "l", "y">>>>
           ELSE << >>)
       \o (IF Len(ps) > 5
           THEN <<<<"O", "c", "c", "a", "s", "i", "o", "n", "a", "l", " ", "p", "o", "s", "t", "e", "r", " ", "-", " ", "s", "h", "a", "r", "e", "s", " ", "c", "o", "n", "t", "e", "n", "t", " ", "s", "o", "m", "e", "t", "i", "m", "e", "s">>>>
           ELSE << >>)
       \o (IF Len(cs) > 50
           THEN <<<<"V", "e", "r", "y", " ", "a", "c", "t", "i", "v", "e", " ", "c", "o", "m", "m", "e", "n", "t", "e", "r", " ", "-", " ", "e", "n", "g", "a", "g", "e", "s", " ", "f", "r", "e", "q", "u", "e", "n", "t", "l", "y", " ", "i", "n", " ", "d", "i", "s", "c", "u", "s", "s", "i", "o", "n", "s">>>>
           ELSE << >>)
       \o (IF Len(cs) > 20
           THEN <<<<"R", "e", "g", "u", "l", "a", "r", " ", "c", "o", "m", "m", "e", "n", "t", "e", "r", " ", "-", " ", "p", "a", "r", "t", "i", "c", "i", "p", "a", "t", "e", "s", " ", "i", "n", " ", "c", "o", "m", "m", "u", "n", "i", "t", "y", " ", "d", "i", "s", "c", "u", "s", "s", "i", "o", "n", "s">>>>
           ELSE << >>)

analyze_behavior_and_habits(ps, cs) ==
    LET top == top_subreddits(ps, cs)
    IN [k \in 1..Len(top) |->
           <<"A", "c", "t", "i", "v", "e", " ", "i", "n", " ", "r", "/">> \o top[k][1] \o <<" ", "c", "o", "m", "m", "u", "n", "i", "t", "y", " ", "w", "i", "t", "h", " ">>
               \o Str(top[k][2]) \o <<" ", "p", "o", "s", "t", "s", "/", "c", "o", "m", "m", "e", "n", "t", "s">>]
       \o (IF Len(ps) > 20
           THEN <<<<"F", "r", "e", "q", "u", "e", "n", "t", " ", "p", "o", "s", "t", "e", "r", " ", "-", " ", "s", "h", "a", "r", "e", "s", " ", "c", "o", "n", "t", "e", "n", "t", " ", "r", "e", "g", "u", "l", "a", "r", "l", "y">>>>
           ELSE IF Len(ps) > 5
           THEN <<<<"O", "c", "c", "a", "s", "i", "o", "n", "a", "l", " ", "p", "o", "s", "t", "e", "r", " ", "-", " ", "s", "h", "a", "r", "e", "s", " ", "c", "o", "n", "t", "e", "n", "t", " ", "s", "o", "m", "e", "t", "i", "m", "e", "s">>>>
           ELSE << >>)
       \o (IF Len(cs) > 50
           THEN <<<<"V", "e", "r", "y", " ", "a", "c", "t", "i", "v", "e", " ", "c", "o", "m", "m", "e", "n", "t", "e", "r", " ", "-", " ", "e", "n", "g", "a", "g", "e", "s", " ", "f", "r", "e", "q", "u", "e", "n", "t", "l", "y", " ", "i", "n", " ", "d", "i", "s", "c", "u", "s", "s", "i", "o", "n", "s">>>>
           ELSE IF Len(cs) > 20
           THEN <<<<"R", "e", "g", "u", "l", "a", "r", " ", "c", "o", "m", "m", "e", "n", "t", "e", "r", " ", "-", " ", "p", "a", "r", "t", "i", "c", "i", "p", "a", "t", "e", "s", " ", "i", "n", " ", "c", "o", "m", "m", "u", "n", "i", "t", "y", " ", "d", "i", "s", "c", "u", "s", "s", "i", "o", "n", "s">>>>
           ELSE << >>)

(***************************************************************************)
(* analyze_frustrations and analyze_goals_and_needs.                       *)
(***************************************************************************)
frustration_patterns ==
    << <<"technology", <<<<"s", "l", "o", "w">>, <<"b", "u", "g">>, <<"c", "r", "a", "s", "h">>, <<"e", "r", "r", "o", "r">>, <<"b", "r", "o", "k", "e", "n">>>> >>,
       <<"time", <<<<"w", "a", "s", "t", "e", " ", "t", "i", "m", "e">>, <<"t", "o", "o", " ", "l", "o", "n", "g">>, <<"w", "a", "i", "t", "i", "n", "g">>, <<"d", "e", "l", "a", "y">>>> >>,
       <<"information",
         <<<<"c", "o", "n", "f", "u", "s", "i", "n", "g">>, <<"u", "n", "c", "l", "e", "a", "r">>, <<"h", "a", "r", "d", " ", "t", "o", " ", "f", "i", "n", "d">>, <<"m", "i", "s", "s", "i", "n", "g", " ", "i", "n", "f", "o">>>> >>,
       <<"service",
         <<<<"p", "o", "o", "r", " ", "s", "e", "r", "v", "i", "c", "e">>, <<"u", "n", "h", "e", "l", "p", "f", "u", "l">>, <<"r", "u", "d", "e">>, <<"d", "i", "s", "a", "p", "p", "o", "i", "n", "t", "i", "n", "g">>>> >> >>

FrustrationSentence(category) ==
    CASE category = "technology" -> <<"T", "e", "c", "h", "n", "o", "l", "o", "g", "y", " ", "i", "s", "s", "u", "e", "s", " ", "a", "n", "d", " ", "s", "o", "f", "t", "w", "a", "r", "e", " ", "p", "r", "o", "b", "l", "e", "m", "s">>
      [] category = "time" -> <<"T", "i", "m", "e", "-", "w", "a", "s", "t", "i", "n", "g", " ", "p", "r", "o", "c", "e", "s", "s", "e", "s", " ", "a", "n", "d", " ", "d", "e", "l", "a", "y", "s">>
      [] category = "information" -> <<"L", "a", "c", "k", " ", "o", "f", " ", "c", "l", "e", "a", "r", " ", "i", "n", "f", "o", "r", "m", "a", "t", "i", "o", "n", " ", "o", "r", " ", "i", "n", "s", "t", "r", "u", "c", "t", "i", "o", "n", "s">>
      [] category = "service" -> <<"P", "o", "o", "r", " ", "c", "u", "s", "t", "o", "m", "e", "r", " ", "s", "e", "r", "v", "i", "c", "e", " ", "e", "x", "p", "e", "r", "i", "e", "n", "c", "e", "s">>

goal_keywords ==
    << <<"health",
         <<<<"l", "o", "s", "e", " ", "w", "e", "i", "g", "h", "t">>, <<"g", "e", "t", " ", "f", "i", "t">>, <<"h", "e", "a", "l", "t", "h", "y", " ", "l", "i", "f", "e", "s", "t", "y", "l", "e">>, <<"e", "x", "e", "r", "c", "i", "s", "e", " ", "m", "o", "r", "e">>>> >>,
       <<"career",
         <<<<"p", "r", "o", "m", "o", "t", "i", "o", "n">>, <<"n", "e", "w", " ", "j", "o", "b">>, <<"c", "a", "r", "e", "e", "r", " ", "g", "r", "o", "w", "t", "h">>, <<"l", "e", "a", "r", "n", " ", "s", "k", "i", "l", "l", "s">>>> >>,
       <<"financial",
         <<<<"s", "a", "v", "e", " ", "m", "o", "n", "e", "y">>, <<"i", "n", "v", "e", "s", "t", "m", "e", "n", "t">>, <<"f", "i", "n", "a", "n", "c", "i", "a", "l", " ", "f", "r", "e", "e", "d", "o", "m">>, <<"b", "u", "d", "g", "e", "t">>>> >>,
       <<"education",
         <<<<"l", "e", "a", "r", "n">>, <<"s", "t", "u", "d", "y">>, <<"c", "o", "u", "r", "s", "e">>, <<"d", "e", "g", "r", "e", "e">>, <<"c", "e", "r", "t", "i", "f", "i", "c", "a", "t", "i", "o", "n">>>> >>,
       <<"relationships", <<<<"m", "e", "e", "t", " ", "p", "e", "o", "p", "l", "e">>, <<"d", "a", "t", "i", "n", "g">>, <<"f", "r", "i", "e", "n", "d", "s">>, <<"s", "o", "c", "i", "a", "l">>>> >>,
       <<"lifestyle", <<<<"t", "r", "a", "v", "e", "l">>, <<"h", "o", "b", "b", "y">>, <<"e", "x", "p", "e", "r", "i", "e", "n", "c", "e">>, <<"a", "d", "v", "e", "n", "t", "u", "r", "e">>>> >> >>

GoalSentence(category) ==
    CASE category = "health" ->
             <<"M", "a", "i", "n", "t", "a", "i", "n", " ", "a", " ", "h", "e", "a", "l", "t", "h", "y", " ", "l", "i", "f", "e", "s", "t", "y", "l", "e", " ", "a", "n", "d", " ", "f", "i", "t", "n", "e", "s", "s", " ", "r", "o", "u", "t", "i", "n", "e">>
      [] category = "career" ->
             <<"A", "d", "v", "a", "n", "c", "e", " ", "c", "a", "r", "e", "e", "r", " ", "a", "n", "d", " ", "d", "e", "v", "e", "l", "o", "p", " ", "p", "r", "o", "f", "e", "s", "s", "i", "o", "n", "a", "l", " ", "s", "k", "i", "l", "l", "s">>
      [] category = "financial" ->
             <<"A", "c", "h", "i", "e", "v", "e", " ", "f", "i", "n", "a", "n", "c", "i", "a", "l", " ", "s", "t", "a", "b", "i", "l", "i", "t", "y", " ", "a", "n", "d", " ", "s", "m", "a", "r", "t", " ", "m", "o", "n", "e", "y", " ", "m", "a", "n", "a", "g", "e", "m", "e", "n", "t">>
      [] category = "education" -> <<"C", "o", "n", "t", "i", "n", "u", "e", " ", "l", "e", "a", "r", "n", "i", "n", "g", " ", "a", "n", "d", " ", "s", "k", "i", "l", "l", " ", "d", "e", "v", "e", "l", "o", "p", "m", "e", "n", "t">>
      [] category = "relationships" ->
             <<"B", "u", "i", "l", "d", " ", "m", "e", "a", "n", "i", "n", "g", "f", "u", "l", " ", "r", "e", "l", "a", "t", "i", "o", "n", "s", "h", "i", "p", "s", " ", "a", "n", "d", " ", "s", "o", "c", "i", "a", "l", " ", "c", "o", "n", "n", "e", "c", "t", "i", "o", "n", "s">>
      [] category = "lifestyle" ->
             <<"E", "x", "p", "l", "o", "r", "e", " ", "n", "e", "w", " ", "e", "x", "p", "e", "r", "i", "e", "n", "c", "e", "s", " ", "a", "n", "d", " ", "m", "a", "i", "n", "t", "a", "i", "n", " ", "w", "o", "r", "k", "-", "l", "i", "f", "e", " ", "b", "a", "l", "a", "n", "c", "e">>

Range(s) == {s[i] : i \in 1..Len(s)}

\* the categories whose sentence the two loops append, in the table's order:
\* a category once (break) if one of its keywords is in the text
Appended(table, text) ==
    LET hit == {k \in 1..Len(table) : AnyIn(text, table[k][2])}
    IN [p \in 1..Cardinality(hit) |-> table[Nth(hit, p)][1]]

\* list(set(xs)): the elements of xs once each, in the order the set yields
\* them.  A set of str is ordered by the hashes of its elements, and str
\* hashes are salted anew for every interpreter process (PYTHONHASHSEED
\* unset): the list is any ordering of the set.
RECURSIVE Orderings(_)
Orderings(S) ==
    IF S = {} THEN {<< >>}
    ELSE UNION {{<<x>> \o rest : rest \in Orderings(S \ {x})} : x \in S}

ListOfSet(xs) == Orderings(Range(xs))

\* the lists analyze_frustrations may return
analyze_frustrations(ps, cs) ==
    LET appended == Appended(frustration_patterns, ContentText(ps, cs))
    IN ListOfSet([p \in 1..Len(appended) |-> FrustrationSentence(appended[p])])

\* the lists analyze_goals_and_needs may return
analyze_goals_and_needs(ps, cs) ==
    LET appended == Appended(goal_keywords, ContentText(ps, cs))
    IN ListOfSet([p \in 1..Len(appended) |-> GoalSentence(appended[p])])
(***************************************************************************)
(* generate_persona.                                                       *)
(***************************************************************************)
\* two decimal digits
TwoDigits(n) == Str(n \div 10) \o Str(n % 10)

\* %H:%M:%S of an instant, counted in whole seconds from 2025-01-01 00:00:00
ClockTime(now) ==
    TwoDigits(now \div 3600) \o <<":">> \o TwoDigits((now \div 60) % 60)
        \o <<":">> \o TwoDigits(now % 60)

\* datetime.isoformat()
Isoformat(now) == <<"2", "0", "2", "5", "-", "0", "1", "-", "0", "1", "T">> \o ClockTime(now)

\* datetime.strftime('%Y-%m-%d %H:%M:%S')
Strftime(now) == <<"2", "0", "2", "5", "-", "0", "1", "-", "0", "1", " ">> \o ClockTime(now)

\* the dicts generate_persona may return at the instant now: the six analyses
\* are run once each, and the dict is built from what they returned
generate_persona(username, ps, cs, now) ==
    LET demographics == analyze_demographics(ps, cs)
        personality == analyze_personality_traits(ps, cs)
        motivations == analyze_motivations(ps, cs)
        behaviors == analyze_behavior_and_habits(ps, cs)
    IN {[username |-> username,
         profile_url |-> <<"h", "t", "t", "p", "s", ":", "/", "/", "w", "w", "w", ".", "r", "e", "d", "d", "i", "t", ".", "c", "o", "m", "/", "u", "s", "e", "r", "/">> \o username \o <<"/">>,
         analysis_date |-> Isoformat(now),
         total_posts |-> Len(ps),
         total_comments |-> Len(cs),
         demographics |-> demographics,
         personality |-> personality,
         motivations |-> motivations,
         behaviors |-> behaviors,
         frustrations |-> frustrations,
         goals |-> goals,
         raw_posts |-> Prefix(ps, 5),
         raw_comments |-> Prefix(cs, 10)] :
            frustrations \in analyze_frustrations(ps, cs),
            goals \in analyze_goals_and_needs(ps, cs)}

(***************************************************************************)
(* PersonaReportGenerator.generate_text_report.                            *)
(***************************************************************************)
\* the three glyphs of the report that are not ASCII, written here as ASCII
FILLED == "#"      \* U+2588, full block
TRACK == "."       \* U+2591, light shade
BULLET == "*"      \* U+2022, bullet

\* c * n: empty when n <= 0
Repeat(c, n) == [i \in 1..n |-> c]

UpperChar(c) ==
    CASE c = "a" -> "A" [] c = "b" -> "B" [] c = "c" -> "C" [] c = "d" -> "D"
      [] c = "e" -> "E" [] c = "f" -> "F" [] c = "g" -> "G" [] c = "h" -> "H"
      [] c = "i" -> "I" [] c = "j" -> "J" [] c = "k" -> "K" [] c = "l" -> "L"
      [] c = "m" -> "M" [] c = "n" -> "N" [] c = "o" -> "O" [] c = "p" -> "P"
      [] c = "q" -> "Q" [] c = "r" -> "R" [] c = "s" -> "S" [] c = "t" -> "T"
      [] c = "u" -> "U" [] c = "v" -> "V" [] c = "w" -> "W" [] c = "x" -> "X"
      [] c = "y" -> "Y" [] c = "z" -> "Z" [] OTHER -> c

\* str.upper()
Upper(s) == [i \in 1..Len(s) |-> UpperChar(s[i])]

IsLetter(c) == UpperChar(c) # c \/ LowerChar(c) # c

\* str.title(): a letter that follows no letter is upper-cased, the others
\* are lower-cased
Title(s) ==
    [i \in 1..Len(s) |->
        IF i = 1 \/ ~IsLetter(s[i - 1]) THEN UpperChar(s[i]) ELSE LowerChar(s[i])]

\* str.replace('_', ' ')
ReplaceUnderscore(s) == [i \in 1..Len(s) |-> IF s[i] = "_" THEN " " ELSE s[i]]

\* f"{s:<15}"
LeftJustify(s, width) == s \o Repeat(" ", width - Len(s))

\* a variant of Gauge: the two glyphs the other way round
GaugeSwapped(score) ==
    Repeat(FILLED, score \div 10) \o Repeat(TRACK, 10 - score \div 10)

\* the ten glyphs of a personality scale
Gauge(score) ==
    Repeat(FILLED, 10 - score \div 10) \o Repeat(TRACK, score \div 10)

\* the ten glyphs of a motivation bar
MotivationBar(score) ==
    LET bar_length == score \div 10
    IN Repeat(FILLED, bar_length) \o Repeat(TRACK, 10 - bar_length)

\* the lines of a loop, one sequence of lines per item, put end to end
RECURSIVE FlattenRange(_, _, _)
FlattenRange(groups, lo, hi) ==
    IF lo > hi THEN << >>
    ELSE IF lo = hi THEN groups[lo]
    ELSE LET mid == (lo + hi) \div 2
         IN FlattenRange(groups, lo, mid) \o FlattenRange(groups, mid + 1, hi)

Flatten(groups) == FlattenRange(groups, 1, Len(groups))

\* behavior.split('r/')[1].split(' ')[0], for a behavior that holds 'r/'
CitedSubreddit(behavior) ==
    LET start == Min(Occurrences(behavior, <<"r", "/">>)) + 2
        rest == SubSeq(behavior, start, Len(behavior))
        stops == Occurrences(rest, <<"r", "/">>) \cup Occurrences(rest, <<" ">>)
    IN IF stops = {} THEN rest ELSE SubSeq(rest, 1, Min(stops) - 1)

HeaderLines(persona) ==
    << Repeat("=", 80),
       <<"U", "S", "E", "R", " ", "P", "E", "R", "S", "O", "N", "A", ":", " ">> \o Upper(persona.username),
       Repeat("=", 80),
       << >> >>

DemographicsLines(persona) ==
    LET demo == persona.demographics
    IN << <<"B", "A", "S", "I", "C", " ", "I", "N", "F", "O", "R", "M", "A", "T", "I", "O", "N">>,
          Repeat("-", 40),
          <<"A", "G", "E", ":", " ", " ", " ", " ", " ", " ", " ", " ", " ", " ", " ">> \o demo.age,
          <<"O", "C", "C", "U", "P", "A", "T", "I", "O", "N", ":", " ", " ", " ", " ">> \o demo.occupation,
          <<"S", "T", "A", "T", "U", "S", ":", " ", " ", " ", " ", " ", " ", " ", " ">> \o demo.status,
          <<"L", "O", "C", "A", "T", "I", "O", "N", ":", " ", " ", " ", " ", " ", " ">> \o demo.location,
          << >> >>

PersonalityLines(persona) ==
    LET personality == persona.personality
    IN << <<"P", "E", "R", "S", "O", "N", "A", "L", "I", "T", "Y", " ", "T", "R", "A", "I", "T", "S">>,
          Repeat("-", 40),
          <<"I", "N", "T", "R", "O", "V", "E", "R", "T", " ">> \o Gauge(personality.introvert_extrovert) \o <<" ", "E", "X", "T", "R", "O", "V", "E", "R", "T">>,
          <<"I", "N", "T", "U", "I", "T", "I", "O", "N", " ">> \o Gauge(personality.intuition_sensing) \o <<" ", "S", "E", "N", "S", "I", "N", "G">>,
          <<"F", "E", "E", "L", "I", "N", "G", " ", " ", " ">> \o Gauge(personality.feeling_thinking) \o <<" ", "T", "H", "I", "N", "K", "I", "N", "G">>,
          <<"P", "E", "R", "C", "E", "I", "V", "I", "N", "G">> \o Gauge(personality.perceiving_judging) \o <<" ", "J", "U", "D", "G", "I", "N", "G">>,
          << >> >>
       \o (IF personality.characteristics # << >>
           THEN <<<<"C", "H", "A", "R", "A", "C", "T", "E", "R", "I", "S", "T", "I", "C", "S", ":">>>>
                \o [i \in 1..Len(personality.characteristics) |->
                       <<BULLET, " ">> \o personality.characteristics[i]]
                \o << << >> >>
           ELSE << >>)

\* a variant of MotivationLines: a score of 20 is shown too
MotivationLinesFrom20(persona) ==
    LET motivations == persona.motivations
        line(item) ==
            IF item[2] >= 20
            THEN << LeftJustify(Title(ReplaceUnderscore(item[1])), 15) \o <<" ">>
                        \o MotivationBar(item[2])
                        \o <<" ", "(">> \o Str(item[2]) \o <<"%", ")">> >>
            ELSE << >>
    IN <<<<"M", "O", "T", "I", "V", "A", "T", "I", "O", "N", "S">>, Repeat("-", 40)>>
       \o Flatten([i \in 1..Len(motivations) |-> line(motivations[i])])
       \o << << >> >>

MotivationLines(persona) ==
    LET motivations == persona.motivations
        line(item) ==
            IF item[2] > 20
            THEN << LeftJustify(Title(ReplaceUnderscore(item[1])), 15) \o <<" ">>
                        \o MotivationBar(item[2])
                        \o <<" ", "(">> \o Str(item[2]) \o <<"%", ")">> >>
            ELSE << >>
    IN <<<<"M", "O", "T", "I", "V", "A", "T", "I", "O", "N", "S">>, Repeat("-", 40)>>
       \o Flatten([i \in 1..Len(motivations) |-> line(motivations[i])])
       \o << << >> >>

BehaviorLines(persona) ==
    LET lines(behavior) ==
            << <<BULLET, " ">> \o behavior >>
            \o (IF Contains(behavior, <<"r", "/">>)
                THEN << <<" ", " ", "C", "i", "t", "a", "t", "i", "o", "n", ":", " ", "A", "c", "t", "i", "v", "e", " ", "i", "n", " ", "r", "/">> \o CitedSubreddit(behavior)
                            \o <<" ", "s", "u", "b", "r", "e", "d", "d", "i", "t">> >>
                ELSE << >>)
    IN <<<<"B", "E", "H", "A", "V", "I", "O", "U", "R", " ", "&", " ", "H", "A", "B", "I", "T", "S">>, Repeat("-", 40)>>
       \o Flatten([i \in 1..Len(persona.behaviors) |-> lines(persona.behaviors[i])])
       \o << << >> >>

\* a variant of CitedLines: the id of the last sample, not of the first
CitedLinesLast(items, raw, label) ==
    Flatten([i \in 1..Len(items) |->
        << <<BULLET, " ">> \o items[i] >>
        \o (IF raw # << >> THEN <<label \o raw[Len(raw)]["id"]>> ELSE << >>)])

\* the bullets of FRUSTRATIONS or of GOALS & NEEDS, each followed by the
\* citation of the first raw item when there is one
CitedLines(items, raw, label) ==
    Flatten([i \in 1..Len(items) |->
        << <<BULLET, " ">> \o items[i] >>
        \o (IF raw # << >> THEN <<label \o raw[1]["id"]>> ELSE << >>)])

FrustrationLines(persona) ==
    <<<<"F", "R", "U", "S", "T", "R", "A", "T", "I", "O", "N", "S">>, Repeat("-", 40)>>
    \o CitedLines(persona.frustrations, persona.raw_posts, <<" ", " ", "C", "i", "t", "a", "t", "i", "o", "n", ":", " ", "P", "o", "s", "t", " ", "I", "D", " ">>)
    \o << << >> >>

GoalLines(persona) ==
    <<<<"G", "O", "A", "L", "S", " ", "&", " ", "N", "E", "E", "D", "S">>, Repeat("-", 40)>>
    \o CitedLines(persona.goals, persona.raw_comments, <<" ", " ", "C", "i", "t", "a", "t", "i", "o", "n", ":", " ", "C", "o", "m", "m", "e", "n", "t", " ", "I", "D", " ">>)
    \o << << >> >>

\* the loop  for item in raw: if item[key] and len(item[key]) > n: ...; break
\* stops at the first item that lacks the key (item[key] raises KeyError) or
\* whose text is longer than n: the index of that item, 0 if there is none
QuoteStop(raw, key, n) ==
    LET stops == {i \in 1..Len(raw) : key \notin DOMAIN raw[i] \/ Len(raw[i][key]) > n}
    IN IF stops = {} THEN 0 ELSE Min(stops)

QuoteLines(persona) ==
    LET p == QuoteStop(persona.raw_posts, "selftext", 50)
        c == QuoteStop(persona.raw_comments, "body", 30)
    IN IF persona.raw_posts = << >> /\ persona.raw_comments = << >> THEN << >>
       ELSE <<<<"R", "E", "P", "R", "E", "S", "E", "N", "T", "A", "T", "I", "V", "E", " ", "Q", "U", "O", "T", "E">>, Repeat("-", 40)>>
            \o (IF p > 0
                THEN LET post == persona.raw_posts[p]
                     IN << <<"\"">> \o Prefix(post["selftext"], 150) \o <<".", ".", ".">> \o <<"\"">>,
                           <<"S", "o", "u", "r", "c", "e", ":", " ", "P", "o", "s", "t", ":", " ">> \o post["title"] \o <<" ", "(", "I", "D", ":", " ">>
                               \o post["id"] \o <<")">> >>
                ELSE IF c > 0
                THEN LET comment == persona.raw_comments[c]
                     IN << <<"\"">> \o Prefix(comment["body"], 150) \o <<".", ".", ".">> \o <<"\"">>,
                           <<"S", "o", "u", "r", "c", "e", ":", " ", "C", "o", "m", "m", "e", "n", "t", " ", "I", "D", ":", " ">> \o comment["id"] >>
                ELSE << >>)

FooterLines(persona, now) ==
    << << >>,
       Repeat("=", 80),
       <<"A", "n", "a", "l", "y", "s", "i", "s", " ", "c", "o", "m", "p", "l", "e", "t", "e", "d", " ", "o", "n", " ">> \o Strftime(now),
       <<"B", "a", "s", "e", "d", " ", "o", "n", " ">> \o Str(persona.total_posts) \o <<" ", "p", "o", "s", "t", "s", " ", "a", "n", "d", " ">>
           \o Str(persona.total_comments) \o <<" ", "c", "o", "m", "m", "e", "n", "t", "s">>,
       Repeat("=", 80) >>

\* the list report, line by line
ReportLines(persona, now) ==
    HeaderLines(persona) \o DemographicsLines(persona)
        \o PersonalityLines(persona) \o MotivationLines(persona)
        \o BehaviorLines(persona) \o FrustrationLines(persona)
        \o GoalLines(persona) \o QuoteLines(persona)
        \o FooterLines(persona, now)

\* "\n".join(report)
RECURSIVE JoinLines(_, _, _)
JoinLines(lines, lo, hi) ==
    IF lo > hi THEN << >>
    ELSE IF lo = hi THEN lines[lo]
    ELSE LET mid == (lo + hi) \div 2
         IN JoinLines(lines, lo, mid) \o <<"\n">> \o JoinLines(lines, mid + 1, hi)

\* whether a subscript  d['key']  of the report finds its key missing
RaisesKeyError(persona) ==
    LET p == QuoteStop(persona.raw_posts, "selftext", 50)
        c == QuoteStop(persona.raw_comments, "body", 30)
    IN \/ /\ persona.frustrations # << >>
          /\ persona.raw_posts # << >>
          /\ "id" \notin DOMAIN persona.raw_posts[1]
       \/ /\ persona.goals # << >>
          /\ persona.raw_comments # << >>
          /\ "id" \notin DOMAIN persona.raw_comments[1]
       \/ /\ p > 0
          /\ {"selftext", "title", "id"} \ DOMAIN persona.raw_posts[p] # {}
       \/ /\ p = 0
          /\ c > 0
          /\ {"body", "id"} \ DOMAIN persona.raw_comments[c] # {}

\* what a call of generate_text_report at the instant now comes to: the text
\* it returns, or the KeyError it raises
generate_text_report(persona, now) ==
    IF RaisesKeyError(persona) THEN [raised |-> "KeyError"]
    ELSE LET report == ReportLines(persona, now)
         IN [raised |-> "nothing", text |-> JoinLines(report, 1, Len(report))]

(***************************************************************************)
(* Spec: generate_persona and generate_text_report called on small inputs. *)
(* The caller puts the two lists together, calls generate_persona on them  *)
(* (twice at most, so that two returns can be compared) and then           *)
(* generate_text_report on the latest return (twice at most).              *)
(***************************************************************************)
Username == <<"k", "d", "_", "9">>

PostValues ==
    { [id |-> <<"p", "1">>, title |-> <<"S", "l", "o", "w", " ", "A", "p", "p">>, selftext |-> <<"r", "u", "d", "e", " ", "a", "n", "d", " ", "u", "n", "h", "e", "l", "p", "f", "u", "l">>,
       subreddit |-> <<"p", "y", "t", "h", "o", "n">>],
      [title |-> <<"c", "r", "a", "s", "h">>],
      [id |-> <<"p", "2">>, title |-> <<"L", "e", "a", "r", "n", " ", "t", "o", " ", "b", "u", "d", "g", "e", "t">>, selftext |-> << >>,
       subreddit |-> << >>] }

CommentValues ==
    { [id |-> <<"c", "1">>, body |-> <<"P", "a", "r", "t", "y", " ", "a", "l", "o", "n", "e">>, subreddit |-> <<"g", "o", "l", "a", "n", "g">>],
      [body |-> <<"f", "a", "s", "t", " ", "a", "n", "d", " ", "e", "a", "s", "y">>] }

\* the instants datetime.now() can return: the clock does not run backwards,
\* and two calls can read the same instant or two different ones
Instants == {0, 1}
Later == {now \in Instants : now >= clock}

\* main is not run
NoRun ==
    [pc |-> "none", profile_url |-> << >>, username |-> << >>, failed |-> {},
     status |-> "none"]

Init ==
    /\ posts = << >>
    /\ comments = << >>
    /\ personas = << >>
    /\ reports = << >>
    /\ fn = "none"
    /\ arg = << >>
    /\ out = << >>
    /\ clock = 0
    /\ run = NoRun

GivePost(p) ==
    /\ personas = << >>
    /\ Len(posts) < MaxPosts
    /\ posts' = Append(posts, p)
    /\ UNCHANGED <<comments, personas, reports, fn, arg, out, clock, run>>

GiveComment(c) ==
    /\ personas = << >>
    /\ Len(comments) < MaxComments
    /\ comments' = Append(comments, c)
    /\ UNCHANGED <<posts, personas, reports, fn, arg, out, clock, run>>

GeneratePersona ==
    /\ Len(personas) < 2
    /\ reports = << >>
    /\ \E now \in Later :
           /\ clock' = now
           /\ \E persona \in generate_persona(Username, posts, comments, now) :
                  personas' = Append(personas, persona)
    /\ UNCHANGED <<posts, comments, reports, fn, arg, out, run>>

GenerateTextReport ==
    /\ personas # << >>
    /\ Len(reports) < 2
    /\ \E now \in Later :
           /\ clock' = now
           /\ reports' = Append(reports,
                  [now |-> now,
                   result |-> generate_text_report(personas[Len(personas)], now)])
    /\ UNCHANGED <<posts, comments, personas, fn, arg, out, run>>

Next ==
    \/ \E p \in PostValues : GivePost(p)
    \/ \E c \in CommentValues : GiveComment(c)
    \/ GeneratePersona
    \/ GenerateTextReport

Spec == Init /\ [][Next]_vars

(***************************************************************************)
(* SpecPersona: the calls of generate_persona alone.                       *)
(***************************************************************************)
NextPersona ==
    \/ \E p \in PostValues : GivePost(p)
    \/ \E c \in CommentValues : GiveComment(c)
    \/ GeneratePersona

SpecPersona == Init /\ [][NextPersona]_vars

(***************************************************************************)
(* SpecScores: the scoring functions applied on their own to long inputs:  *)
(* some posts whose title is one keyword and some comments whose body is   *)
(* another, up to MaxRepeat of each.                                       *)
(***************************************************************************)
\* first, two keywords that two motivation categories share; then, for each
\* of the four scales, a keyword of its right-hand pole (the posts) and one
\* of its left-hand pole (the comments)
ScoreWords ==
    << <<<<"F", "a", "s", "t">>, <<"d", "i", "e", "t">>>>, <<<<"P", "a", "r", "t", "y">>, <<"a", "l", "o", "n", "e">>>>, <<<<"F", "a", "c", "t", "s">>, <<"i", "d", "e", "a">>>>,
       <<<<"L", "o", "g", "i", "c">>, <<"f", "e", "e", "l">>>>, <<<<"P", "l", "a", "n">>, <<"o", "p", "e", "n">>>> >>

\* n posts with the one title, n comments with the one body
PostsOf(word, n) == [i \in 1..n |-> [id |-> <<"p">> \o Str(i), title |-> word]]
CommentsOf(word, n) == [i \in 1..n |-> [id |-> <<"c">> \o Str(i), body |-> word]]

InitScores ==
    /\ \E w \in 1..Len(ScoreWords) : \E np \in 0..MaxRepeat : \E nc \in 0..MaxRepeat :
           /\ posts = PostsOf(ScoreWords[w][1], np)
           /\ comments = CommentsOf(ScoreWords[w][2], nc)
    /\ personas = << >>
    /\ reports = << >>
    /\ fn = "none"
    /\ arg = << >>
    /\ out = << >>
    /\ clock = 0
    /\ run = NoRun

ApplyPersonalityTraits ==
    /\ fn = "none"
    /\ fn' = "analyze_personality_traits"
    /\ out' = analyze_personality_traits(posts, comments)
    /\ UNCHANGED <<posts, comments, personas, reports, arg, clock, run>>

ApplyMotivations ==
    /\ fn = "none"
    /\ fn' = "analyze_motivations"
    /\ out' = analyze_motivations(posts, comments)
    /\ UNCHANGED <<posts, comments, personas, reports, arg, clock, run>>

NextScores == ApplyPersonalityTraits \/ ApplyMotivations

SpecScores == InitScores /\ [][NextScores]_vars


(***************************************************************************)
(* SpecBehavior: analyze_behavior_and_habits applied on its own to posts   *)
(* and comments of several subreddits, among them the empty subreddit and  *)
(* a comment that has no subreddit at all.                                 *)
(***************************************************************************)
BehaviorPosts ==
    {[id |-> <<"p">>, subreddit |-> s] :
        s \in {<<"p", "y", "t", "h", "o", "n">>, <<"g", "o", "l", "a", "n", "g">>, <<"r", "u", "s", "t">>, << >>}}

BehaviorComments ==
    {[id |-> <<"c">>, subreddit |-> s] : s \in {<<"g", "o", "l", "a", "n", "g">>, <<"r", "u", "s", "t">>, <<"v", "i", "m">>}}
        \cup {[id |-> <<"c">>]}

InitBehavior ==
    /\ \E np \in 0..MaxPosts : \E nc \in 0..MaxComments :
           /\ posts \in [1..np -> BehaviorPosts]
           /\ comments \in [1..nc -> BehaviorComments]
    /\ personas = << >>
    /\ reports = << >>
    /\ fn = "none"
    /\ arg = << >>
    /\ out = << >>
    /\ clock = 0
    /\ run = NoRun

ApplyBehaviorAndHabits ==
    /\ fn = "none"
    /\ fn' = "analyze_behavior_and_habits"
    /\ out' = analyze_behavior_and_habits(posts, comments)
    /\ UNCHANGED <<posts, comments, personas, reports, arg, clock, run>>

NextBehavior == ApplyBehaviorAndHabits

SpecBehavior == InitBehavior /\ [][NextBehavior]_vars

(***************************************************************************)
(* SpecGauge: the PERSONALITY TRAITS section of the report rendered on its *)
(* own for a persona one of whose four scores is any of 0..100, the other  *)
(* three 50.                                                               *)
(***************************************************************************)
Axes ==
    <<"introvert_extrovert", "intuition_sensing", "feeling_thinking",
      "perceiving_judging">>

PersonalityOf(axis, score) ==
    [key \in {Axes[a] : a \in 1..Len(Axes)} \cup {"characteristics"} |->
        IF key = "characteristics" THEN << >>
        ELSE IF key = axis THEN score ELSE 50]

InitGauge ==
    /\ \E a \in 1..Len(Axes) : \E score \in 0..100 :
           arg = [personality |-> PersonalityOf(Axes[a], score)]
    /\ posts = << >>
    /\ comments = << >>
    /\ personas = << >>
    /\ reports = << >>
    /\ fn = "none"
    /\ out = << >>
    /\ clock = 0
    /\ run = NoRun

ApplyPersonalityLines ==
    /\ fn = "none"
    /\ fn' = "PersonalityLines"
    /\ out' = PersonalityLines(arg)
    /\ UNCHANGED <<posts, comments, personas, reports, arg, clock, run>>

NextGauge == ApplyPersonalityLines

SpecGauge == InitGauge /\ [][NextGauge]_vars

(***************************************************************************)
(* SpecDemographics: analyze_demographics applied on its own to one post   *)
(* and one comment whose title, selftext and body are each a word of the   *)
(* tables, or empty.                                                       *)
(***************************************************************************)
DemographicWords ==
    {<< >>, <<"C", "o", "l", "l", "e", "g", "e">>, <<"s", "t", "u", "d", "e", "n", "t">>, <<"k", "i", "d", "s">>, <<"c", "a", "n", "a", "d", "a">>, <<"u", "k">>, <<"a", "u", "s", "t", "r", "a", "l", "i", "a">>,
     <<"t", "e", "a", "c", "h", "e", "r">>, <<"s", "o", "f", "t", "w", "a", "r", "e">>, <<"w", "i", "f", "e">>, <<"g", "i", "r", "l", "f", "r", "i", "e", "n", "d">>, <<"d", "a", "t", "i", "n", "g">>, <<"s", "i", "n", "g", "l", "e">>,
     <<"d", "a", "t", "i", "n", "g", " ", "a", "p", "p">>}

InitDemographics ==
    /\ \E title \in DemographicWords : \E selftext \in DemographicWords :
           posts = <<[id |-> <<"p", "1">>, title |-> title, selftext |-> selftext]>>
    /\ \E body \in DemographicWords : comments = <<[id |-> <<"c", "1">>, body |-> body]>>
    /\ personas = << >>
    /\ reports = << >>
    /\ fn = "none"
    /\ arg = << >>
    /\ out = << >>
    /\ clock = 0
    /\ run = NoRun

ApplyDemographics ==
    /\ fn = "none"
    /\ fn' = "analyze_demographics"
    /\ out' = analyze_demographics(posts, comments)
    /\ UNCHANGED <<posts, comments, personas, reports, arg, clock, run>>

NextDemographics == ApplyDemographics

SpecDemographics == InitDemographics /\ [][NextDemographics]_vars

(***************************************************************************)
(* SpecTiers: analyze_behavior_and_habits applied on its own to many posts *)
(* and comments, spread over none to four subreddits.                      *)
(***************************************************************************)
TierSubreddits == <<<<"p", "y", "t", "h", "o", "n">>, <<"g", "o", "l", "a", "n", "g">>, <<"r", "u", "s", "t">>, <<"v", "i", "m">>>>

\* n records, the i-th of them in the subreddit i modulo d of the list; in
\* the empty subreddit if d = 0
PostsIn(n, d) ==
    [i \in 1..n |->
        [id |-> <<"p">> \o Str(i),
         subreddit |-> IF d = 0 THEN << >> ELSE TierSubreddits[(i % d) + 1]]]

CommentsIn(n, d) ==
    [i \in 1..n |->
        [id |-> <<"c">> \o Str(i),
         subreddit |-> IF d = 0 THEN << >> ELSE TierSubreddits[(i % d) + 1]]]

InitTiers ==
    /\ \E np \in 0..MaxTierPosts : \E nc \in 0..MaxTierComments :
           \E d \in 0..Len(TierSubreddits) :
               /\ posts = PostsIn(np, d)
               /\ comments = CommentsIn(nc, d)
    /\ personas = << >>
    /\ reports = << >>
    /\ fn = "none"
    /\ arg = << >>
    /\ out = << >>
    /\ clock = 0
    /\ run = NoRun

NextTiers == ApplyBehaviorAndHabits

SpecTiers == InitTiers /\ [][NextTiers]_vars

(***************************************************************************)
(* SpecMotivationLines: the MOTIVATIONS section of the report rendered on  *)
(* its own for a persona three of whose motivation scores are any of the   *)
(* scores analyze_motivations can return, the other three 0.               *)
(***************************************************************************)
\* min(score * 10, 100) for the counts 0, 1, 2, ...
MotivationScores == {MotivationScore(n) : n \in 0..10}

MotivationsOf(convenience, speed, dietary_needs) ==
    [k \in 1..Len(motivation_keywords) |->
        <<motivation_keywords[k][1],
          CASE motivation_keywords[k][1] = <<"c", "o", "n", "v", "e", "n", "i", "e", "n", "c", "e">> -> convenience
            [] motivation_keywords[k][1] = <<"s", "p", "e", "e", "d">> -> speed
            [] motivation_keywords[k][1] = <<"d", "i", "e", "t", "a", "r", "y", "_", "n", "e", "e", "d", "s">> -> dietary_needs
            [] OTHER -> 0>>]

InitMotivationLines ==
    /\ \E a \in MotivationScores : \E b \in MotivationScores :
           \E c \in MotivationScores :
               arg = [motivations |-> MotivationsOf(a, b, c)]
    /\ posts = << >>
    /\ comments = << >>
    /\ personas = << >>
    /\ reports = << >>
    /\ fn = "none"
    /\ out = << >>
    /\ clock = 0
    /\ run = NoRun

ApplyMotivationLines ==
    /\ fn = "none"
    /\ fn' = "MotivationLines"
    /\ out' = MotivationLines(arg)
    /\ UNCHANGED <<posts, comments, personas, reports, arg, clock, run>>

NextMotivationLines == ApplyMotivationLines

SpecMotivationLines == InitMotivationLines /\ [][NextMotivationLines]_vars

(***************************************************************************)
(* SpecCitations: one call of generate_persona and one call of             *)
(* generate_text_report, on posts and comments as RedditScraper builds     *)
(* them (every key present), each with a keyword of a frustration or of a  *)
(* goal.                                                                   *)
(***************************************************************************)
CitedPosts ==
    { [id |-> <<"p", "1">>, title |-> <<"S", "l", "o", "w", " ", "A", "p", "p">>, selftext |-> << >>,
       subreddit |-> <<"p", "y", "t", "h", "o", "n">>],
      [id |-> <<"p", "2">>, title |-> <<"L", "e", "a", "r", "n", " ", "G", "o">>, selftext |-> << >>,
       subreddit |-> <<"g", "o", "l", "a", "n", "g">>] }

CitedComments ==
    { [id |-> <<"c", "1">>, body |-> <<"s", "o", " ", "c", "o", "n", "f", "u", "s", "i", "n", "g">>, subreddit |-> <<"p", "y", "t", "h", "o", "n">>],
      [id |-> <<"c", "2">>, body |-> <<"w", "a", "n", "t", " ", "t", "o", " ", "t", "r", "a", "v", "e", "l">>, subreddit |-> << >>] }

InitCitations ==
    /\ \E np \in 0..MaxPosts : posts \in [1..np -> CitedPosts]
    /\ \E nc \in 0..MaxComments : comments \in [1..nc -> CitedComments]
    /\ personas = << >>
    /\ reports = << >>
    /\ fn = "none"
    /\ arg = << >>
    /\ out = << >>
    /\ clock = 0
    /\ run = NoRun

NextCitations ==
    \/ personas = << >> /\ GeneratePersona
    \/ reports = << >> /\ GenerateTextReport

SpecCitations == InitCitations /\ [][NextCitations]_vars

(***************************************************************************)
(* SpecMain: a run of main, from the validation of its argument to its     *)
(* exit.  run.pc is the statement main stands before; run.failed records   *)
(* which of the two fetches ended in the except clause of the scraper.     *)
(***************************************************************************)
\* [a-zA-Z0-9_-]
IsNameChar(c) ==
    \/ IsLetter(c)
    \/ c \in {"0", "1", "2", "3", "4", "5", "6", "7", "8", "9", "_", "-"}

\* the length of the longest run of [a-zA-Z0-9_-] that s begins with
NameLength(s) ==
    LET stops == {i \in 1..Len(s) : ~IsNameChar(s[i])}
    IN IF stops = {} THEN Len(s) ELSE Min(stops) - 1

StartsWith(s, prefix) ==
    Len(s) >= Len(prefix) /\ SubSeq(s, 1, Len(prefix)) = prefix

\* re.match(r'^https?://(www\.)?reddit\.com/user/[a-zA-Z0-9_-]+/?$', url);
\* $ matches at the end, and before a line feed at the end
validate_reddit_url(url) ==
    \E scheme \in {<<"h", "t", "t", "p", ":", "/", "/">>, <<"h", "t", "t", "p", "s", ":", "/", "/">>} : \E www \in {<< >>, <<"w", "w", "w", ".">>} :
        LET head == scheme \o www \o <<"r", "e", "d", "d", "i", "t", ".", "c", "o", "m", "/", "u", "s", "e", "r", "/">>
            rest == SubSeq(url, Len(head) + 1, Len(url))
        IN /\ StartsWith(url, head)
           /\ NameLength(rest) >= 1
           /\ SubSeq(rest, NameLength(rest) + 1, Len(rest))
                  \in {<< >>, <<"/">>, <<"\n">>, <<"/", "\n">>}

\* re.search(r'reddit\.com/user/([a-zA-Z0-9_-]+)', profile_url): the places
\* where the pattern matches
UsernameMatches(profile_url) ==
    {i \in Occurrences(profile_url, <<"r", "e", "d", "d", "i", "t", ".", "c", "o", "m", "/", "u", "s", "e", "r", "/">>) :
        NameLength(SubSeq(profile_url, i + 16, Len(profile_url))) >= 1}

\* match.group(1) of the first match
extract_username(profile_url) ==
    LET rest == SubSeq(profile_url, Min(UsernameMatches(profile_url)) + 16,
                       Len(profile_url))
    IN SubSeq(rest, 1, NameLength(rest))

Urls ==
    {<<"h", "t", "t", "p", "s", ":", "/", "/", "w", "w", "w", ".", "r", "e", "d", "d", "i", "t", ".", "c", "o", "m", "/", "u", "s", "e", "r", "/", "k", "d", "_", "9", "/">>, <<"h", "t", "t", "p", ":", "/", "/", "r", "e", "d", "d", "i", "t", ".", "c", "o", "m", "/", "u", "s", "e", "r", "/", "k", "d", "_", "9">>,
     <<"h", "t", "t", "p", "s", ":", "/", "/", "o", "l", "d", ".", "r", "e", "d", "d", "i", "t", ".", "c", "o", "m", "/", "u", "s", "e", "r", "/", "k", "d", "_", "9", "/">>, <<"h", "t", "t", "p", "s", ":", "/", "/", "w", "w", "w", ".", "r", "e", "d", "d", "i", "t", ".", "c", "o", "m", "/", "u", "/", "k", "d", "_", "9", "/">>,
     <<"h", "t", "t", "p", "s", ":", "/", "/", "w", "w", "w", ".", "r", "e", "d", "d", "i", "t", ".", "c", "o", "m", "/", "u", "s", "e", "r", "/", "k", "d", "_", "9", "/", "c", "o", "m", "m", "e", "n", "t", "s">>, <<"r", "e", "d", "d", "i", "t", ".", "c", "o", "m", "/", "u", "s", "e", "r", "/", "k", "d", "_", "9">>}

\* the lists the two fetches can build from a response
FetchedPosts == UNION {[1..n -> CitedPosts] : n \in 0..MaxPosts}
FetchedComments == UNION {[1..n -> CitedComments] : n \in 0..MaxComments}

InitMain ==
    /\ \E url \in Urls :
           run = [pc |-> "validate", profile_url |-> url, username |-> << >>,
                  failed |-> {}, status |-> "none"]
    /\ posts = << >>
    /\ comments = << >>
    /\ personas = << >>
    /\ reports = << >>
    /\ fn = "none"
    /\ arg = << >>
    /\ out = << >>
    /\ clock = 0

\* sys.exit(1)
Exit1 == [run EXCEPT !.pc = "exited", !.status = "1"]

ValidateUrl ==
    /\ run.pc = "validate"
    /\ run' = IF validate_reddit_url(run.profile_url)
              THEN [run EXCEPT !.pc = "extract_username"]
              ELSE Exit1
    /\ UNCHANGED <<posts, comments, personas, reports, fn, arg, out, clock>>

\* a ValueError of extract_username is caught by  except Exception
ExtractUsername ==
    /\ run.pc = "extract_username"
    /\ run' = IF UsernameMatches(run.profile_url) # {}
              THEN [run EXCEPT !.pc = "get_user_posts",
                               !.username = extract_username(run.profile_url)]
              ELSE Exit1
    /\ UNCHANGED <<posts, comments, personas, reports, fn, arg, out, clock>>

\* get_user_posts returns the list it built; or a RequestException is caught
\* in it, and it returns []; or another exception (the JSON is not an object)
\* leaves it and is caught by  except Exception  of main
GetUserPosts ==
    /\ run.pc = "get_user_posts"
    /\ \/ \E fetched \in FetchedPosts :
              /\ posts' = fetched
              /\ run' = [run EXCEPT !.pc = "get_user_comments"]
       \/ /\ posts' = << >>
          /\ run' = [run EXCEPT !.pc = "get_user_comments",
                                !.failed = @ \cup {"posts"}]
       \/ /\ posts' = posts
          /\ run' = Exit1
    /\ UNCHANGED <<comments, personas, reports, fn, arg, out, clock>>

GetUserComments ==
    /\ run.pc = "get_user_comments"
    /\ \/ \E fetched \in FetchedComments :
              /\ comments' = fetched
              /\ run' = [run EXCEPT !.pc = "check"]
       \/ /\ comments' = << >>
          /\ run' = [run EXCEPT !.pc = "check", !.failed = @ \cup {"comments"}]
       \/ /\ comments' = comments
          /\ run' = Exit1
    /\ UNCHANGED <<posts, personas, reports, fn, arg, out, clock>>

\* if not posts and not comments: sys.exit(1)
CheckFound ==
    /\ run.pc = "check"
    /\ run' = IF posts = << >> /\ comments = << >>
              THEN Exit1
              ELSE [run EXCEPT !.pc = "generate_persona"]
    /\ UNCHANGED <<posts, comments, personas, reports, fn, arg, out, clock>>

MainGeneratePersona ==
    /\ run.pc = "generate_persona"
    /\ \E now \in Later :
           /\ clock' = now
           /\ \E persona \in generate_persona(run.username, posts, comments, now) :
                  personas' = Append(personas, persona)
    /\ run' = [run EXCEPT !.pc = "save_report"]
    /\ UNCHANGED <<posts, comments, reports, fn, arg, out>>

\* save_report: the report is generated and written; an exception of either
\* (a KeyError, an OSError) is caught by  except Exception
SaveReport ==
    /\ run.pc = "save_report"
    /\ \E now \in Later :
           LET result == generate_text_report(personas[Len(personas)], now)
           IN /\ clock' = now
              /\ reports' = Append(reports, [now |-> now, result |-> result])
              /\ \/ /\ result.raised = "nothing"
                    /\ run' = [run EXCEPT !.pc = "summary"]
                 \/ run' = Exit1
    /\ UNCHANGED <<posts, comments, personas, fn, arg, out>>

\* the summary is printed and main returns: exit status 0
PrintSummary ==
    /\ run.pc = "summary"
    /\ run' = [run EXCEPT !.pc = "exited", !.status = "0"]
    /\ UNCHANGED <<posts, comments, personas, reports, fn, arg, out, clock>>

\* except KeyboardInterrupt, anywhere in the try block
KeyboardInterrupt ==
    /\ run.pc \notin {"none", "validate", "exited"}
    /\ run' = Exit1
    /\ UNCHANGED <<posts, comments, personas, reports, fn, arg, out, clock>>

NextMain ==
    \/ ValidateUrl
    \/ ExtractUsername
    \/ GetUserPosts
    \/ GetUserComments
    \/ CheckFound
    \/ MainGeneratePersona
    \/ SaveReport
    \/ PrintSummary
    \/ KeyboardInterrupt

SpecMain == InitMain /\ [][NextMain]_vars

(***************************************************************************)
(* The properties.                                                         *)
(***************************************************************************)
\* the number of places of text where a keyword of keywords occurs
PlacesOf(text, keywords) ==
    Cardinality(UNION {{<<k, i>> : i \in Occurrences(text, keywords[k])} :
                          k \in 1..Len(keywords)})

\* C1: each of the four scores analyze_personality_traits returns and each
\* of the six scores analyze_motivations returns is an integer from 0 to 100.
C1_ScoresInRange ==
    /\ fn = "analyze_personality_traits" =>
           \A a \in 1..Len(Axes) : out[Axes[a]] \in 0..100
    /\ fn = "analyze_motivations" =>
           /\ Len(out) = 6
           /\ \A k \in 1..Len(out) : out[k][2] \in 0..100

\* more than ten posts of one keyword: a motivation score is held at 100
C1_Witness ==
    /\ fn = "analyze_motivations"
    /\ PlacesOf(ContentText(posts, comments), motivation_keywords[1][2]) > 10
    /\ out[1][2] = 100

\* C2: the persona generate_persona returns for no posts and no comments has
\* "Unknown" in each of its four demographic fields, 50 on each of its four
\* scales, and no characteristics, behaviors, frustrations or goals.
C2_EmptyInputIsNeutral ==
    (posts = << >> /\ comments = << >>) =>
        \A i \in 1..Len(personas) :
            LET persona == personas[i]
            IN /\ DOMAIN persona.demographics =
                      {"age", "occupation", "status", "location"}
               /\ \A field \in DOMAIN persona.demographics :
                      persona.demographics[field] = <<"U", "n", "k", "n", "o", "w", "n">>
               /\ \A a \in 1..Len(Axes) : persona.personality[Axes[a]] = 50
               /\ persona.personality.characteristics = << >>
               /\ persona.behaviors = << >>
               /\ persona.frustrations = << >>
               /\ persona.goals = << >>

C2_Witness ==
    /\ posts = << >>
    /\ comments = << >>
    /\ personas # << >>

\* 100 * B / (A + B) rounded toward zero, 50 for A + B = 0
TruncatedQuotient(A, B) ==
    IF A + B = 0 THEN 50 ELSE (100 * B) \div (A + B)

\* C3: the score of each of the four scales is 50 when the text has no
\* keyword of either pole, and otherwise 100 * B / (A + B) rounded toward
\* zero, A and B the numbers of occurrences counted for the two poles.
C3_AxisScoreIsTruncatedQuotient ==
    fn = "analyze_personality_traits" =>
        LET text == TraitsText(posts, comments)
        IN /\ out.introvert_extrovert =
                  TruncatedQuotient(SumCounts(text, introvert_keywords),
                                    SumCounts(text, extrovert_keywords))
           /\ out.intuition_sensing =
                  TruncatedQuotient(SumCounts(text, intuition_keywords),
                                    SumCounts(text, sensing_keywords))
           /\ out.feeling_thinking =
                  TruncatedQuotient(SumCounts(text, feeling_keywords),
                                    SumCounts(text, thinking_keywords))
           /\ out.perceiving_judging =
                  TruncatedQuotient(SumCounts(text, perceiving_keywords),
                                    SumCounts(text, judging_keywords))

\* C4: two calls of generate_persona on the same username, posts and
\* comments return personas that are equal but for their analysis_date.
C4_PersonasEqualButForDate ==
    Len(personas) = 2 =>
        [personas[1] EXCEPT !.analysis_date = personas[2].analysis_date]
            = personas[2]

\* C5: generate_text_report on the persona generate_persona returned raises
\* no error, whatever fields the posts and the comments lack.
C5_ReportNeverRaises ==
    \A i \in 1..Len(reports) : reports[i].result.raised = "nothing"

C7_TopSubredditsByCountThenFirstSeen ==
    fn = "analyze_behavior_and_habits" =>
        LET seen == posts \o comments
            named == {i \in 1..Len(seen) :
                         /\ "subreddit" \in DOMAIN seen[i]
                         /\ seen[i].subreddit # << >>}
            names == {seen[i].subreddit : i \in named}
            count(s) == Cardinality({i \in named : seen[i].subreddit = s})
            first(s) == Min({i \in named : seen[i].subreddit = s})
            ahead(s) == {t \in names :
                            \/ count(t) > count(s)
                            \/ (count(t) = count(s) /\ first(t) < first(s))}
            shown == {s \in names : Cardinality(ahead(s)) < 3}
        IN /\ Cardinality(shown) <= Len(out)
           /\ \A s \in shown :
                  out[Cardinality(ahead(s)) + 1] =
                      <<"A", "c", "t", "i", "v", "e", " ", "i", "n", " ", "r", "/">> \o s \o <<" ", "c", "o", "m", "m", "u", "n", "i", "t", "y", " ", "w", "i", "t", "h", " ">>
                          \o Str(count(s)) \o <<" ", "p", "o", "s", "t", "s", "/", "c", "o", "m", "m", "e", "n", "t", "s">>
           /\ \A k \in (Cardinality(shown) + 1)..Len(out) :
                  SubSeq(out[k], 1, 12) # <<"A", "c", "t", "i", "v", "e", " ", "i", "n", " ", "r", "/">>

\* golang has two records and is named first although it was met second;
\* python and vim have one each, and python was met first
C7_Witness ==
    /\ fn = "analyze_behavior_and_habits"
    /\ [i \in 1..Len(posts) |-> posts[i].subreddit] = <<<<"p", "y", "t", "h", "o", "n">>, <<"g", "o", "l", "a", "n", "g">>>>
    /\ [i \in 1..Len(comments) |-> Get(comments[i], "subreddit")] =
           <<<<"g", "o", "l", "a", "n", "g">>, <<"v", "i", "m">>>>
    /\ out = <<<<"A", "c", "t", "i", "v", "e", " ", "i", "n", " ", "r", "/", "g", "o", "l", "a", "n", "g", " ", "c", "o", "m", "m", "u", "n", "i", "t", "y", " ", "w", "i", "t", "h", " ", "2", " ", "p", "o", "s", "t", "s", "/", "c", "o", "m", "m", "e", "n", "t", "s">>,
               <<"A", "c", "t", "i", "v", "e", " ", "i", "n", " ", "r", "/", "p", "y", "t", "h", "o", "n", " ", "c", "o", "m", "m", "u", "n", "i", "t", "y", " ", "w", "i", "t", "h", " ", "1", " ", "p", "o", "s", "t", "s", "/", "c", "o", "m", "m", "e", "n", "t", "s">>,
               <<"A", "c", "t", "i", "v", "e", " ", "i", "n", " ", "r", "/", "v", "i", "m", " ", "c", "o", "m", "m", "u", "n", "i", "t", "y", " ", "w", "i", "t", "h", " ", "1", " ", "p", "o", "s", "t", "s", "/", "c", "o", "m", "m", "e", "n", "t", "s">>>>

\* C8: the frustrations and the goals of a persona hold no sentence twice,
\* and hold the sentence of a category exactly when a keyword of the
\* category occurs in the text: four frustrations and six goals at most.
C8_OneSentencePerMatchedCategory ==
    \A i \in 1..Len(personas) :
        LET text == ContentText(posts, comments)
            matched(table) ==
                {k \in 1..Len(table) :
                    \E j \in 1..Len(table[k][2]) : Contains(text, table[k][2][j])}
            frustrations == personas[i].frustrations
            goals == personas[i].goals
        IN /\ \A m, n \in 1..Len(frustrations) :
                  frustrations[m] = frustrations[n] => m = n
           /\ {frustrations[m] : m \in 1..Len(frustrations)} =
                  {FrustrationSentence(frustration_patterns[k][1]) :
                      k \in matched(frustration_patterns)}
           /\ Len(frustrations) <= 4
           /\ \A m, n \in 1..Len(goals) : goals[m] = goals[n] => m = n
           /\ {goals[m] : m \in 1..Len(goals)} =
                  {GoalSentence(goal_keywords[k][1]) : k \in matched(goal_keywords)}
           /\ Len(goals) <= 6

\* two keywords of one category of frustrations in the text, and two goals
C8_Witness ==
    /\ personas # << >>
    /\ Contains(ContentText(posts, comments), <<"r", "u", "d", "e">>)
    /\ Contains(ContentText(posts, comments), <<"u", "n", "h", "e", "l", "p", "f", "u", "l">>)
    /\ Len(personas[1].frustrations) = 2
    /\ Len(personas[1].goals) = 2

\* C10: the line of each of the four scales holds ten glyphs, after its
\* label: first 10 - s div 10 filled glyphs, then s div 10 track glyphs,
\* s the score of the scale, from 0 to 100.
C10_GaugeIsTenGlyphs ==
    fn = "PersonalityLines" =>
        \A a \in 1..Len(Axes) :
            LET s == arg.personality[Axes[a]]
                line == out[2 + a]
                filled == {i \in 1..Len(line) : line[i] = FILLED}
                track == {i \in 1..Len(line) : line[i] = TRACK}
            IN /\ 10 - s \div 10 >= 0
               /\ s \div 10 >= 0
               /\ filled = 11..(20 - s \div 10)
               /\ track = (21 - s \div 10)..20

\* a score of 30: seven filled glyphs, then three track glyphs
C10_Witness ==
    /\ fn = "PersonalityLines"
    /\ arg.personality.feeling_thinking = 30
    /\ out[5] = <<"F", "E", "E", "L", "I", "N", "G", " ", " ", " ">> \o <<FILLED, FILLED, FILLED, FILLED, FILLED,
                                   FILLED, FILLED, TRACK, TRACK, TRACK>>
                    \o <<" ", "T", "H", "I", "N", "K", "I", "N", "G">>

\* whether value is the value of the first item of table whose keyword is in
\* text, "Unknown" if no keyword of table is
IsFirstMatch(value, table, text) ==
    \/ /\ value = <<"U", "n", "k", "n", "o", "w", "n">>
       /\ \A k \in 1..Len(table) : ~Contains(text, table[k][1])
    \/ \E k \in 1..Len(table) :
           /\ Contains(text, table[k][1])
           /\ \A j \in 1..(k - 1) : ~Contains(text, table[j][1])
           /\ value = table[k][2]

\* C11: age, location and occupation are each the value of the first item of
\* their table, in the order the table is written in, whose keyword occurs in
\* the lower-cased text, and "Unknown" when no keyword of the table occurs.
C11_FirstMatchWins ==
    fn = "analyze_demographics" =>
        LET text == DemographicsText(posts, comments)
        IN /\ IsFirstMatch(out.age, age_indicators, text)
           /\ IsFirstMatch(out.location, location_indicators, text)
           /\ IsFirstMatch(out.occupation, occupation_keywords, text)

\* "student" comes before "college" in the text and after it in the table
C11_Witness ==
    /\ fn = "analyze_demographics"
    /\ posts[1].title = <<"s", "t", "u", "d", "e", "n", "t">>
    /\ posts[1].selftext = <<"C", "o", "l", "l", "e", "g", "e">>
    /\ out.age = <<"2", "0", "-", "2", "2">>
    /\ out.occupation = <<"S", "t", "u", "d", "e", "n", "t">>
    /\ out.location = <<"U", "n", "k", "n", "o", "w", "n">>

\* the words of the title, the selftext and the body that are not empty
WordsGiven ==
    {w \in {posts[1].title, posts[1].selftext, comments[1].body} : w # << >>}

C13_SubredditsThenOneTierOfEachKind ==
    fn = "analyze_behavior_and_habits" =>
        LET poster ==
                IF Len(posts) > 20
                THEN <<<<"F", "r", "e", "q", "u", "e", "n", "t", " ", "p", "o", "s", "t", "e", "r", " ", "-", " ", "s", "h", "a", "r", "e", "s", " ", "c", "o", "n", "t", "e", "n", "t", " ", "r", "e", "g", "u", "l", "a", "r", "l", "y">>>>
                ELSE IF Len(posts) > 5
                THEN <<<<"O", "c", "c", "a", "s", "i", "o", "n", "a", "l", " ", "p", "o", "s", "t", "e", "r", " ", "-", " ", "s", "h", "a", "r", "e", "s", " ", "c", "o", "n", "t", "e", "n", "t", " ", "s", "o", "m", "e", "t", "i", "m", "e", "s">>>>
                ELSE << >>
            commenter ==
                IF Len(comments) > 50
                THEN <<<<"V", "e", "r", "y", " ", "a", "c", "t", "i", "v", "e", " ", "c", "o", "m", "m", "e", "n", "t", "e", "r", " ", "-", " ", "e", "n", "g", "a", "g", "e", "s", " ", "f", "r", "e", "q", "u", "e", "n", "t", "l", "y", " ", "i", "n", " ", "d", "i", "s", "c", "u", "s", "s", "i", "o", "n", "s">>>>
                ELSE IF Len(comments) > 20
                THEN <<<<"R", "e", "g", "u", "l", "a", "r", " ", "c", "o", "m", "m", "e", "n", "t", "e", "r", " ", "-", " ", "p", "a", "r", "t", "i", "c", "i", "p", "a", "t", "e", "s", " ", "i", "n", " ", "c", "o", "m", "m", "u", "n", "i", "t", "y", " ", "d", "i", "s", "c", "u", "s", "s", "i", "o", "n", "s">>>>
                ELSE << >>
        IN /\ Len(out) <= 5
           /\ \E n \in 0..3 :
                  /\ n <= Len(out)
                  /\ \A k \in 1..n : SubSeq(out[k], 1, 12) = <<"A", "c", "t", "i", "v", "e", " ", "i", "n", " ", "r", "/">>
                  /\ SubSeq(out, n + 1, Len(out)) = poster \o commenter

\* 21 posts and 51 comments in four subreddits: three subreddit strings and
\* the upper string of each kind
C13_Witness ==
    /\ fn = "analyze_behavior_and_habits"
    /\ Len(posts) = 21
    /\ Len(comments) = 51
    /\ Len(out) = 5
    /\ out[4] = <<"F", "r", "e", "q", "u", "e", "n", "t", " ", "p", "o", "s", "t", "e", "r", " ", "-", " ", "s", "h", "a", "r", "e", "s", " ", "c", "o", "n", "t", "e", "n", "t", " ", "r", "e", "g", "u", "l", "a", "r", "l", "y">>
    /\ out[5] = <<"V", "e", "r", "y", " ", "a", "c", "t", "i", "v", "e", " ", "c", "o", "m", "m", "e", "n", "t", "e", "r", " ", "-", " ", "e", "n", "g", "a", "g", "e", "s", " ", "f", "r", "e", "q", "u", "e", "n", "t", "l", "y", " ", "i", "n", " ", "d", "i", "s", "c", "u", "s", "s", "i", "o", "n", "s">>

\* the names of the six categories as the report writes them, in 15 columns
\* and a space
MotivationLabels ==
    <<<<"C", "o", "n", "v", "e", "n", "i", "e", "n", "c", "e", " ", " ", " ", " ", " ">>, <<"W", "e", "l", "l", "n", "e", "s", "s", " ", " ", " ", " ", " ", " ", " ", " ">>, <<"S", "p", "e", "e", "d", " ", " ", " ", " ", " ", " ", " ", " ", " ", " ", " ">>,
      <<"P", "r", "e", "f", "e", "r", "e", "n", "c", "e", "s", " ", " ", " ", " ", " ">>, <<"C", "o", "m", "f", "o", "r", "t", " ", " ", " ", " ", " ", " ", " ", " ", " ">>, <<"D", "i", "e", "t", "a", "r", "y", " ", "N", "e", "e", "d", "s", " ", " ", " ">>>>

\* C14: the MOTIVATIONS section has a line for a category exactly when its
\* score is greater than 20, in the order of the categories; the line holds
\* ten glyphs, score div 10 filled and then 10 - score div 10 track, and
\* after them the score as a percentage in parentheses.
C14_BarLinesAboveTwenty ==
    fn = "MotivationLines" =>
        LET score(k) == arg.motivations[k][2]
            shown == {k \in 1..Len(arg.motivations) : score(k) > 20}
            digit(d) == <<"0", "1", "2", "3", "4", "5", "6", "7", "8", "9">>[d + 1]
            percent(s) ==
                IF s = 100 THEN <<"1", "0", "0">> ELSE <<digit(s \div 10), digit(s % 10)>>
        IN /\ Len(out) = 3 + Cardinality(shown)
           /\ out[1] = <<"M", "O", "T", "I", "V", "A", "T", "I", "O", "N", "S">>
           /\ out[Len(out)] = << >>
           /\ \A k \in shown :
                  LET line == out[2 + Cardinality({j \in shown : j <= k})]
                      filled == {i \in 1..Len(line) : line[i] = FILLED}
                      track == {i \in 1..Len(line) : line[i] = TRACK}
                  IN /\ SubSeq(line, 1, 16) = MotivationLabels[k]
                     /\ filled = 17..(16 + score(k) \div 10)
                     /\ track = (17 + score(k) \div 10)..26
                     /\ SubSeq(line, 27, Len(line)) =
                            <<" ", "(">> \o percent(score(k)) \o <<"%", ")">>

\* scores of 30, 20 and 100: a line for the first and for the last
C14_Witness ==
    /\ fn = "MotivationLines"
    /\ arg.motivations[1][2] = 30
    /\ arg.motivations[3][2] = 20
    /\ arg.motivations[6][2] = 100
    /\ Len(out) = 5
    /\ out[3] = <<"C", "o", "n", "v", "e", "n", "i", "e", "n", "c", "e", " ", " ", " ", " ", " ">> \o <<FILLED, FILLED, FILLED, TRACK, TRACK,
                    TRACK, TRACK, TRACK, TRACK, TRACK>> \o <<" ", "(", "3", "0", "%", ")">>
    /\ out[4] = <<"D", "i", "e", "t", "a", "r", "y", " ", "N", "e", "e", "d", "s", " ", " ", " ">> \o <<FILLED, FILLED, FILLED, FILLED, FILLED,
                    FILLED, FILLED, FILLED, FILLED, FILLED>> \o <<" ", "(", "1", "0", "0", "%", ")">>

\* C15: a report holds the line REPRESENTATIVE QUOTE only if a post of
\* raw_posts has a selftext of more than 50 characters or, failing that, a
\* comment of raw_comments has a body of more than 30.
C15_QuoteSectionOnlyWithQuote ==
    \A i \in 1..Len(reports) :
        LET persona == personas[Len(personas)]
            result == reports[i].result
        IN (result.raised = "nothing"
                /\ Contains(result.text, <<"R", "E", "P", "R", "E", "S", "E", "N", "T", "A", "T", "I", "V", "E", " ", "Q", "U", "O", "T", "E">>))
           => \/ \E p \in 1..Len(persona.raw_posts) :
                     Len(Get(persona.raw_posts[p], "selftext")) > 50
              \/ \E c \in 1..Len(persona.raw_comments) :
                     Len(Get(persona.raw_comments[c], "body")) > 30

\* the lines of a text: what stands between its line feeds
LinesOf(text) ==
    LET feeds == {i \in 1..Len(text) : text[i] = "\n"}
        feed(k) == IF k = 0 THEN 0
                   ELSE IF k > Cardinality(feeds) THEN Len(text) + 1
                   ELSE Nth(feeds, k)
    IN [k \in 1..(Cardinality(feeds) + 1) |->
           SubSeq(text, feed(k - 1) + 1, feed(k) - 1)]

\* whether the section of lines under heading is the bullets of items, each
\* followed by the one line cited if there is one, and then an empty line
IsCitedSection(lines, heading, items, cited) ==
    LET at == CHOOSE i \in 1..Len(lines) : lines[i] = heading
        width == Len(cited) + 1
        expected == [j \in 1..(Len(items) * width) |->
                        IF (j - 1) % width = 0
                        THEN <<BULLET, " ">> \o items[(j - 1) \div width + 1]
                        ELSE cited[1]]
    IN /\ \E i \in 1..Len(lines) : lines[i] = heading
       /\ SubSeq(lines, at + 2, at + 1 + Len(expected)) = expected
       /\ lines[at + 2 + Len(expected)] = << >>

\* C16: in a report, each bullet of FRUSTRATIONS is followed at once by a
\* line that cites the id of the first post given if a post was given, and
\* by no such line if none was; each bullet of GOALS & NEEDS likewise with
\* the id of the first comment given.
C16_BulletsCiteFirstSample ==
    \A i \in 1..Len(reports) :
        reports[i].result.raised = "nothing" =>
            LET lines == LinesOf(reports[i].result.text)
                persona == personas[Len(personas)]
            IN /\ IsCitedSection(lines, <<"F", "R", "U", "S", "T", "R", "A", "T", "I", "O", "N", "S">>, persona.frustrations,
                      IF posts = << >> THEN << >>
                      ELSE <<<<" ", " ", "C", "i", "t", "a", "t", "i", "o", "n", ":", " ", "P", "o", "s", "t", " ", "I", "D", " ">> \o posts[1].id>>)
               /\ IsCitedSection(lines, <<"G", "O", "A", "L", "S", " ", "&", " ", "N", "E", "E", "D", "S">>, persona.goals,
                      IF comments = << >> THEN << >>
                      ELSE <<<<" ", " ", "C", "i", "t", "a", "t", "i", "o", "n", ":", " ", "C", "o", "m", "m", "e", "n", "t", " ", "I", "D", " ">> \o comments[1].id>>)

\* two frustrations and two posts of different ids; a goal and no comment
\* but one, which has no goal in it
C16_Witness ==
    /\ reports # << >>
    /\ reports[1].result.raised = "nothing"
    /\ Len(posts) = 2
    /\ posts[1].id = <<"p", "2">>
    /\ posts[2].id = <<"p", "1">>
    /\ Len(comments) = 1
    /\ comments[1].id = <<"c", "1">>
    /\ Len(personas[1].frustrations) = 2
    /\ Len(personas[1].goals) = 1
    /\ Contains(reports[1].result.text, <<" ", " ", "C", "i", "t", "a", "t", "i", "o", "n", ":", " ", "P", "o", "s", "t", " ", "I", "D", " ", "p", "2">>)
    /\ Contains(reports[1].result.text, <<" ", " ", "C", "i", "t", "a", "t", "i", "o", "n", ":", " ", "C", "o", "m", "m", "e", "n", "t", " ", "I", "D", " ", "c", "1">>)

\* C17: in a run of main generate_persona is called only if the URL is
\* valid, none of the two fetches failed and a post or a comment was found;
\* and a run with an invalid URL, a failed fetch or nothing found ends with
\* exit status 1 without a call of generate_persona.
C17_CoreOnlyAfterCleanFetches ==
    LET clean == /\ validate_reddit_url(run.profile_url)
                 /\ run.failed = {}
                 /\ (posts # << >> \/ comments # << >>)
    IN /\ personas # << >> => clean
       /\ (run.pc = "exited" /\ ~clean) =>
              (run.status = "1" /\ personas = << >>)
=============================================================================
